---- MODULE Spec2Model ----
(***************************************************************************)
(* A model of the SAM.gov contract fetcher (corintxt/sam-contract-fetcher). *)
(*                                                                         *)
(*   Spec      src/src/fetcher.py  fetch_contracts: one HTTP GET per       *)
(*             organization code, merged and deduplicated by noticeId.     *)
(*   SpecNorm  src/src/fetcher.py  process_contracts and                   *)
(*             src/src/fetcher/data_processor.py  process_data: the        *)
(*             record normalizers, item by item.                           *)
(*   SpecRun   src/src/main.py  run: the orchestrator and its sinks.       *)
(*   SpecName  src/src/main.py  generate_filename, with strptime as a      *)
(*             parser of the characters of its arguments.                  *)
(*   SpecSink  src/src/storage.py  save_to_bigquery and                    *)
(*             src/src/notifier.py  send_email_notification, as functions  *)
(*             of the contracts they are given.                            *)
(*                                                                         *)
(* Python values are tagged records [t |-> <type>, v |-> <value>]; a dict  *)
(* is a function from its keys to values, so an absent key is a key that   *)
(* is not in the DOMAIN.  An exception is the value Raised(<name>).        *)
(***************************************************************************)
EXTENDS Integers, Sequences, FiniteSets, TLC

VARIABLES
  \* ---- fetch_contracts (src/src/fetcher.py) ----
  now,                \* the local date datetime.now() gives
  posted_from_arg,    \* the posted_from argument
  posted_to_arg,      \* the posted_to argument
  org_codes_arg,      \* the org_codes argument: PyNone or a list of codes
  posted_from,        \* the local posted_from after defaulting
  posted_to,          \* the local posted_to after defaulting
  org_codes,          \* the local org_codes after defaulting
  fpc,                \* position in fetch_contracts
  code_idx,           \* index of the org code the for loop is at
  opportunities,      \* the list of the response being merged
  opp_idx,            \* index of the opportunity the inner loop is at
  all_opportunities,  \* the merged list
  seen_notice_ids,    \* the set of notice ids already emitted
  http_log,           \* the requests issued so far, each with its outcome
  budget,             \* records the API may still return in this call
  prior,              \* the requests and the result of the call before this one
  \* ---- process_contracts / process_data ----
  variant,            \* which normalizer runs
  raw_data,           \* its input list
  processed,          \* its output list so far
  item_idx,           \* index of the item the loop is at
  npc,                \* position in the normalizer
  \* ---- main.run (src/src/main.py) ----
  env,                \* the module-level configuration read from the environment
  rpc,                \* position in run
  raw_contracts,      \* what fetch_contracts returned to run
  processed_contracts,
  local_file,         \* whether the local JSON file is on disk
  calls,              \* the external calls run has made, in order
  log_lines,          \* the levels of the WARNING/ERROR lines logged
  exit_code,          \* run's return value, PyNone while running
  \* ---- generate_filename (src/src/main.py) ----
  name_from,          \* its posted_from argument, a str as its characters
  name_to,            \* its posted_to argument, a str as its characters
  clock,              \* what datetime.now() gives in the fallback
  filename,           \* its return value, PyNone before the call
  \* ---- save_to_bigquery (src/src/storage.py), send_email_notification
  \*      (src/src/notifier.py) ----
  contracts,          \* the contracts argument of both
  rows_to_insert,     \* the rows save_to_bigquery has built
  bq_state,           \* position in save_to_bigquery
  mail_data,          \* the data of the message posted to Mailgun, PyNone if none
  mail_state          \* position in send_email_notification

fetch_vars == <<now, posted_from_arg, posted_to_arg, org_codes_arg, posted_from,
                posted_to, org_codes, fpc, code_idx, opportunities, opp_idx,
                all_opportunities, seen_notice_ids, http_log, budget, prior>>
norm_vars == <<variant, raw_data, processed, item_idx, npc>>
run_vars == <<env, rpc, raw_contracts, processed_contracts, local_file, calls,
              log_lines, exit_code>>
name_vars == <<name_from, name_to, clock, filename>>
sink_vars == <<contracts, rows_to_insert, bq_state, mail_data, mail_state>>
vars == <<fetch_vars, norm_vars, run_vars, name_vars, sink_vars>>

\* What a step of one function leaves alone: the state of the others (and,
\* inside fetch_contracts, the record of the call before).
FetchOnly == UNCHANGED <<prior, norm_vars, run_vars, name_vars, sink_vars>>
NormOnly == UNCHANGED <<fetch_vars, run_vars, name_vars, sink_vars>>
RunOnly ==
  UNCHANGED <<now, posted_from_arg, posted_to_arg, org_codes_arg, org_codes, fpc,
              code_idx, opportunities, opp_idx, all_opportunities, seen_notice_ids,
              http_log, budget, prior, norm_vars, name_vars, sink_vars>>
NameOnly == UNCHANGED <<fetch_vars, norm_vars, run_vars, sink_vars>>
SinkOnly ==
  UNCHANGED <<fetch_vars, norm_vars, name_vars, env, rpc, raw_contracts,
              processed_contracts, local_file, log_lines, exit_code>>

----------------------------------------------------------------------------
(* Bounds of the model. *)

\* Longest org_codes sequence.
MaxCodes == 3
\* Most records the API returns over one fetch_contracts call.
MaxOpps == 3
\* Longest input list of a normalizer.
MaxItems == 2
\* Most contracts fetch_contracts hands to run.
MaxContracts == 2

----------------------------------------------------------------------------
(* Python values. *)

PyNone == [t |-> "none"]
PyStr(s) == [t |-> "str", v |-> s]
\* A str whose characters matter, as the sequence of them.
PyText(cs) == [t |-> "text", v |-> cs]
PyBool(b) == [t |-> "bool", v |-> b]
PyNum(n) == [t |-> "num", v |-> n]
PyList(s) == [t |-> "list", v |-> s]
PyDict(f) == [t |-> "dict", v |-> f]
EmptyStr == PyStr("")
EmptyList == PyList(<<>>)
EmptyDict == PyDict(<<>>)
Raised(e) == [t |-> "raise", v |-> e]
IsRaised(x) == x.t = "raise"

\* bool(x): None, "", 0, False, [] and {} are falsy.
Truthy(x) ==
  CASE x.t = "none" -> FALSE
    [] x.t = "str" -> x.v # ""
    [] x.t = "text" -> Len(x.v) > 0
    [] x.t = "bool" -> x.v
    [] x.t = "num" -> x.v # 0
    [] x.t = "list" -> Len(x.v) > 0
    [] x.t = "dict" -> DOMAIN x.v # {}

\* x or y
PyOr(x, y) == IF Truthy(x) THEN x ELSE y

\* d.get(k, default): only a dict has .get.  An exception raised while
\* evaluating d is the outcome.
PyGet(d, k, default) ==
  IF IsRaised(d) THEN d
  ELSE IF d.t = "dict"
  THEN IF k \in DOMAIN d.v THEN d.v[k] ELSE default
  ELSE Raised("AttributeError")

\* x[0].  The strings of the model that get indexed have one character.
PyIndex0(x) ==
  CASE x.t = "list" -> IF Len(x.v) > 0 THEN x.v[1] ELSE Raised("IndexError")
    [] x.t = "str" -> IF x.v # "" THEN PyStr(x.v) ELSE Raised("IndexError")
    [] x.t = "dict" -> Raised("KeyError")
    [] OTHER -> Raised("TypeError")

----------------------------------------------------------------------------
(* Dates: datetime.now() - timedelta(days=1) and strftime("%m/%d/%Y"). *)

DigitChar == <<"0", "1", "2", "3", "4", "5", "6", "7", "8", "9">>
Digit(n) == DigitChar[n + 1]
Pad2(n) == Digit((n \div 10) % 10) \o Digit(n % 10)
Pad4(n) == Pad2(n \div 100) \o Pad2(n % 100)

IsLeap(y) == (y % 4 = 0 /\ y % 100 # 0) \/ y % 400 = 0
DaysIn(y, m) ==
  IF m = 2 THEN (IF IsLeap(y) THEN 29 ELSE 28)
  ELSE IF m \in {4, 6, 9, 11} THEN 30 ELSE 31

\* The calendar day before dt.
MinusOneDay_SameDay(dt) == dt
MinusOneDay(dt) ==
  IF dt.d > 1 THEN [y |-> dt.y, m |-> dt.m, d |-> dt.d - 1]
  ELSE IF dt.m > 1 THEN [y |-> dt.y, m |-> dt.m - 1, d |-> DaysIn(dt.y, dt.m - 1)]
  ELSE [y |-> dt.y - 1, m |-> 12, d |-> 31]

\* dt.strftime("%m/%d/%Y")
StrftimeMDY(dt) == PyStr(Pad2(dt.m) \o "/" \o Pad2(dt.d) \o "/" \o Pad4(dt.y))

\* The local dates datetime.now() takes in the model: mid-month, first of a
\* month after a leap and a common February and after a 30-day month, first of
\* a year.
Todays ==
  { [y |-> 2025, m |-> 11, d |-> 6],
    [y |-> 2024, m |-> 3, d |-> 1],
    [y |-> 2025, m |-> 3, d |-> 1],
    [y |-> 2025, m |-> 12, d |-> 1],
    [y |-> 2025, m |-> 1, d |-> 1] }

\* fetch_contracts lines 37-41: the effective <<posted_from, posted_to>>.
EffectiveDates_KeepSupplied(from, to, today) ==
  LET yesterday == StrftimeMDY(MinusOneDay(today))
  IN <<IF Truthy(from) THEN from ELSE yesterday,
       IF Truthy(to) THEN to ELSE yesterday>>
EffectiveDates(from, to, today) ==
  IF ~Truthy(from) \/ ~Truthy(to)
  THEN LET yesterday == MinusOneDay(today)
       IN <<StrftimeMDY(yesterday), StrftimeMDY(yesterday)>>
  ELSE <<from, to>>

----------------------------------------------------------------------------
(* The search API as fetch_contracts sees it. *)

BASE_URL == "https://api.sam.gov/opportunities/v2/search"
DefaultOrgCodes == <<"070">>
CodeNames == <<"070", "097", "021", "036", "075">>

SeqsUpTo(S, n) == UNION {[1..k -> S] : k \in 0..n}

\* What a noticeId can look like in a returned record; "absent" is a record
\* without the key.
NoticeIdShapes == {"absent", "null", "empty", "N1", "N2"}

\* A record returned for org code c.  fullParentPathName tells the copies of
\* one notice returned for different codes apart.
Opp(shape, c) ==
  LET org == [fullParentPathName |-> PyStr(c)]
  IN PyDict(CASE shape = "absent" -> org
              [] shape = "null" -> org @@ [noticeId |-> PyNone]
              [] shape = "empty" -> org @@ [noticeId |-> EmptyStr]
              [] OTHER -> org @@ [noticeId |-> PyStr(shape)])

OppsOf(c) == {Opp(sh, c) : sh \in NoticeIdShapes}

\* The JSON bodies of a 200 answer: with the list, without the key, or with
\* null in place of the list.
Bodies(c, n) ==
  {PyDict([opportunitiesData |-> PyList(l)]) : l \in SeqsUpTo(OppsOf(c), n)}
    \cup {PyDict([totalRecords |-> PyNum(0)]), PyDict([opportunitiesData |-> PyNone])}

StatusCodes == {200, 500}

\* What requests.get(BASE_URL, params, timeout=30) can do: answer, or raise.
Outcomes(c, n) ==
  {[kind |-> "response", status_code |-> 200, json |-> b] : b \in Bodies(c, n)}
    \cup {[kind |-> "response", status_code |-> s, json |-> PyNone] :
            s \in StatusCodes \ {200}}
    \cup {[kind |-> "exception", error |-> e] : e \in {"ConnectionError", "Timeout"}}

\* Lines 50-57.
Params_DefaultCode(c) ==
  [api_key |-> "KEY", organizationCode |-> "070", postedFrom |-> posted_from,
   postedTo |-> posted_to, active |-> "true", limit |-> 200]
Params(c) ==
  [api_key |-> "KEY", organizationCode |-> c, postedFrom |-> posted_from,
   postedTo |-> posted_to, active |-> "true", limit |-> 200]

----------------------------------------------------------------------------
(* fetch_contracts, src/src/fetcher.py lines 15-81. *)

\* Line 73: the record is appended when its id is truthy and not seen yet.
KeepOpp_NoDedup(notice_id, seen) == Truthy(notice_id)
KeepOpp_DedupIdless(notice_id, seen) == notice_id \notin seen
KeepOpp(notice_id, seen) == Truthy(notice_id) /\ notice_id \notin seen

\* The for loop of line 47 moves to the next code.
NextCode ==
  /\ code_idx' = code_idx + 1
  /\ fpc' = "loop"
  /\ opp_idx' = 0

\* Lines 33-45: defaults and the empty accumulators.
FetchCall_KeepSeen ==
  /\ fpc = "idle"
  /\ org_codes' = IF org_codes_arg = PyNone THEN DefaultOrgCodes ELSE org_codes_arg.v
  /\ posted_from' = EffectiveDates(posted_from_arg, posted_to_arg, now)[1]
  /\ posted_to' = EffectiveDates(posted_from_arg, posted_to_arg, now)[2]
  /\ all_opportunities' = <<>>
  /\ code_idx' = 1
  /\ fpc' = "loop"
  /\ UNCHANGED <<now, posted_from_arg, posted_to_arg, org_codes_arg, opportunities,
                 opp_idx, seen_notice_ids, http_log, budget>>
  /\ FetchOnly
FetchCall ==
  /\ fpc = "idle"
  /\ org_codes' = IF org_codes_arg = PyNone THEN DefaultOrgCodes ELSE org_codes_arg.v
  /\ posted_from' = EffectiveDates(posted_from_arg, posted_to_arg, now)[1]
  /\ posted_to' = EffectiveDates(posted_from_arg, posted_to_arg, now)[2]
  /\ all_opportunities' = <<>>
  /\ seen_notice_ids' = {}
  /\ code_idx' = 1
  /\ fpc' = "loop"
  /\ UNCHANGED <<now, posted_from_arg, posted_to_arg, org_codes_arg, opportunities,
                 opp_idx, http_log, budget>>
  /\ FetchOnly

\* Lines 76-78: a non-200 answer is printed as a warning and the loop goes on.
HandleNonOk_Abort ==
  /\ fpc' = "returned"
  /\ all_opportunities' = <<>>
  /\ UNCHANGED <<code_idx, opp_idx, opportunities, seen_notice_ids, budget>>
HandleNonOk ==
  /\ NextCode
  /\ UNCHANGED <<opportunities, all_opportunities, seen_notice_ids, budget>>

\* Lines 65-68: the list under opportunitiesData, [] without the key;
\* len(None) of line 68 raises TypeError.
HandleOk_KeyRequired(data) ==
  IF "opportunitiesData" \notin DOMAIN data.v \/ data.v["opportunitiesData"].t # "list"
  THEN /\ fpc' = "raised"
       /\ UNCHANGED <<code_idx, opp_idx, opportunities, all_opportunities,
                      seen_notice_ids, budget>>
  ELSE LET opps == data.v["opportunitiesData"]
       IN /\ opportunities' = opps.v
          /\ budget' = budget - Len(opps.v)
          /\ IF Len(opps.v) = 0
             THEN NextCode
             ELSE fpc' = "merge" /\ opp_idx' = 1 /\ code_idx' = code_idx
          /\ UNCHANGED <<all_opportunities, seen_notice_ids>>
HandleOk(data) ==
  LET opps == PyGet(data, "opportunitiesData", EmptyList)
  IN IF opps.t # "list"
     THEN /\ fpc' = "raised"
          /\ UNCHANGED <<code_idx, opp_idx, opportunities, all_opportunities,
                         seen_notice_ids, budget>>
     ELSE /\ opportunities' = opps.v
          /\ budget' = budget - Len(opps.v)
          /\ IF Len(opps.v) = 0
             THEN NextCode
             ELSE fpc' = "merge" /\ opp_idx' = 1 /\ code_idx' = code_idx
          /\ UNCHANGED <<all_opportunities, seen_notice_ids>>

\* Line 59: requests.get raised; nothing in fetch_contracts catches it.
HandleException ==
  /\ fpc' = "raised"
  /\ UNCHANGED <<code_idx, opp_idx, opportunities, all_opportunities,
                 seen_notice_ids, budget>>

\* Lines 47-68 and 76-78: one iteration of the loop up to the status test.
Request ==
  /\ fpc = "loop"
  /\ code_idx <= Len(org_codes)
  /\ \E o \in Outcomes(org_codes[code_idx], budget) :
       /\ http_log' = Append(http_log,
                             [url |-> BASE_URL, params |-> Params(org_codes[code_idx]),
                              timeout |-> 30, outcome |-> o])
       /\ IF o.kind = "exception" THEN HandleException
          ELSE IF o.status_code = 200 THEN HandleOk(o.json)
          ELSE HandleNonOk
  /\ UNCHANGED <<now, posted_from_arg, posted_to_arg, org_codes_arg, posted_from,
                 posted_to, org_codes>>
  /\ FetchOnly

\* Lines 71-75: one iteration of the inner loop.
MergeOpp_Prepend ==
  /\ fpc = "merge"
  /\ LET opp == opportunities[opp_idx]
         notice_id == PyGet(opp, "noticeId", PyNone)
     IN IF KeepOpp(notice_id, seen_notice_ids)
        THEN /\ seen_notice_ids' = seen_notice_ids \cup {notice_id}
             /\ all_opportunities' = <<opp>> \o all_opportunities
        ELSE UNCHANGED <<seen_notice_ids, all_opportunities>>
  /\ IF opp_idx = Len(opportunities)
     THEN NextCode
     ELSE opp_idx' = opp_idx + 1 /\ UNCHANGED <<fpc, code_idx>>
  /\ UNCHANGED <<now, posted_from_arg, posted_to_arg, org_codes_arg, posted_from,
                 posted_to, org_codes, opportunities, http_log, budget>>
  /\ FetchOnly
MergeOpp ==
  /\ fpc = "merge"
  /\ LET opp == opportunities[opp_idx]
         notice_id == PyGet(opp, "noticeId", PyNone)
     IN IF KeepOpp(notice_id, seen_notice_ids)
        THEN /\ seen_notice_ids' = seen_notice_ids \cup {notice_id}
             /\ all_opportunities' = Append(all_opportunities, opp)
        ELSE UNCHANGED <<seen_notice_ids, all_opportunities>>
  /\ IF opp_idx = Len(opportunities)
     THEN NextCode
     ELSE opp_idx' = opp_idx + 1 /\ UNCHANGED <<fpc, code_idx>>
  /\ UNCHANGED <<now, posted_from_arg, posted_to_arg, org_codes_arg, posted_from,
                 posted_to, org_codes, opportunities, http_log, budget>>
  /\ FetchOnly

\* Lines 80-81: return all_opportunities, posted_from, posted_to.
FetchReturn ==
  /\ fpc = "loop"
  /\ code_idx > Len(org_codes)
  /\ fpc' = "returned"
  /\ UNCHANGED <<now, posted_from_arg, posted_to_arg, org_codes_arg, posted_from,
                 posted_to, org_codes, code_idx, opportunities, opp_idx,
                 all_opportunities, seen_notice_ids, http_log, budget>>
  /\ FetchOnly

\* The org_codes arguments: None, or the first n code names.
OrgCodeArgs == {PyNone} \cup {PyList(SubSeq(CodeNames, 1, n)) : n \in 0..MaxCodes}

\* No call was made before this one.
NoPrior == [made |-> FALSE, log |-> <<>>, result |-> <<>>]

FetchIdle ==
  /\ prior = NoPrior
  /\ fpc = "idle"
  /\ posted_from = PyNone
  /\ posted_to = PyNone
  /\ org_codes = <<>>
  /\ code_idx = 0
  /\ opportunities = <<>>
  /\ opp_idx = 0
  /\ all_opportunities = <<>>
  /\ seen_notice_ids = {}
  /\ http_log = <<>>

NormIdle ==
  /\ variant = "none"
  /\ raw_data = <<>>
  /\ processed = <<>>
  /\ item_idx = 0
  /\ npc = "idle"

RunIdle ==
  /\ env = [API_KEY |-> PyNone]
  /\ rpc = "idle"
  /\ raw_contracts = <<>>
  /\ processed_contracts = <<>>
  /\ local_file = FALSE
  /\ calls = <<>>
  /\ log_lines = <<>>
  /\ exit_code = PyNone

NameIdle ==
  /\ name_from = <<>>
  /\ name_to = <<>>
  /\ clock = [y |-> 2025, m |-> 11, d |-> 6, H |-> 0, M |-> 0, S |-> 0]
  /\ filename = PyNone

SinkIdle ==
  /\ contracts = <<>>
  /\ rows_to_insert = <<>>
  /\ bq_state = "idle"
  /\ mail_data = PyNone
  /\ mail_state = "idle"

\* A call of fetch_contracts with any org codes; the dates are left to their
\* defaults or both given.
Init ==
  /\ now \in {[y |-> 2025, m |-> 11, d |-> 6]}
  /\ \E dates \in {<<PyNone, PyNone>>, <<PyStr("11/05/2025"), PyStr("11/07/2025")>>} :
       posted_from_arg = dates[1] /\ posted_to_arg = dates[2]
  /\ org_codes_arg \in OrgCodeArgs
  /\ budget = MaxOpps
  /\ FetchIdle
  /\ NormIdle
  /\ RunIdle
  /\ NameIdle
  /\ SinkIdle

Next == FetchCall \/ Request \/ MergeOpp \/ FetchReturn

Spec == Init /\ [][Next]_vars

----------------------------------------------------------------------------
(* What the exchange with the API, as logged in http_log, returned. *)

Range(s) == {s[i] : i \in 1..Len(s)}
NoticeIdOf(opp) == PyGet(opp, "noticeId", PyNone)

AnsweredOk(i) ==
  http_log[i].outcome.kind = "response" /\ http_log[i].outcome.status_code = 200
AnsweredNonOk(i) ==
  http_log[i].outcome.kind = "response" /\ http_log[i].outcome.status_code # 200
TransportFailed(i) == http_log[i].outcome.kind = "exception"

\* The records request i returned: those of its opportunitiesData when it
\* answered 200, none otherwise.
ReturnedBy(i) ==
  IF /\ AnsweredOk(i)
     /\ "opportunitiesData" \in DOMAIN http_log[i].outcome.json.v
     /\ http_log[i].outcome.json.v["opportunitiesData"].t = "list"
  THEN http_log[i].outcome.json.v["opportunitiesData"].v
  ELSE <<>>

RECURSIVE ReturnedUpTo(_)
ReturnedUpTo(n) == IF n = 0 THEN <<>> ELSE ReturnedUpTo(n - 1) \o ReturnedBy(n)

\* Every returned record, in org_codes order.
AllReturned == ReturnedUpTo(Len(http_log))

\* Record k of AllReturned is the first one carrying its notice id.
FirstOfItsId(k) ==
  \A j \in 1..(k - 1) : NoticeIdOf(AllReturned[j]) # NoticeIdOf(AllReturned[k])

----------------------------------------------------------------------------
(* C1: the merged list returned by fetch_contracts contains each notice_id
   at most once, and of several records with one notice_id returned for
   different codes it keeps the one of the code that comes first in
   org_codes. *)
C1_MergeUniqueFirstCodeWins ==
  fpc = "returned" =>
    /\ \A i, j \in 1..Len(all_opportunities) :
         NoticeIdOf(all_opportunities[i]) = NoticeIdOf(all_opportunities[j]) => i = j
    /\ \A i \in 1..Len(all_opportunities) :
         \E k \in 1..Len(AllReturned) :
           /\ NoticeIdOf(AllReturned[k]) = NoticeIdOf(all_opportunities[i])
           /\ FirstOfItsId(k)
           /\ all_opportunities[i] = AllReturned[k]

\* Two codes answered 200 with the same notice id in different copies, and
\* the call returned one record.
C1_Witness ==
  /\ fpc = "returned"
  /\ Len(all_opportunities) = 1
  /\ \E i, j \in 1..Len(http_log) :
       /\ i < j
       /\ \E a \in Range(ReturnedBy(i)), b \in Range(ReturnedBy(j)) :
            /\ Truthy(NoticeIdOf(a))
            /\ NoticeIdOf(a) = NoticeIdOf(b)
            /\ a # b
            /\ all_opportunities[1] = a

(* C2: a non-200 answer for one code does not abort fetch_contracts: the
   loop goes on to the next code, and when the call returns every code was
   queried and the merged result contains every unique record returned by the
   codes that answered 200, wherever the failing code stands.  A unique record
   is the first record carrying its notice id; the merge keeps no record
   without one (line 73). *)
C2_NonOkKeepsEveryUniqueRecord ==
  /\ (Len(http_log) > 0 /\ AnsweredNonOk(Len(http_log))) =>
       /\ fpc \in {"loop", "returned"}
       /\ code_idx = Len(http_log) + 1
  /\ (fpc = "returned" /\ \E i \in 1..Len(http_log) : AnsweredNonOk(i)) =>
       /\ Len(http_log) = Len(org_codes)
       /\ \A k \in 1..Len(AllReturned) :
            (Truthy(NoticeIdOf(AllReturned[k])) /\ FirstOfItsId(k))
              => AllReturned[k] \in Range(all_opportunities)

\* One of three codes answered non-200, the two others 200 with one record
\* each, and both records are in the returned list.
C2_Witness ==
  /\ fpc = "returned"
  /\ Len(http_log) = 3
  /\ AnsweredOk(1) /\ AnsweredNonOk(2) /\ AnsweredOk(3)
  /\ Len(ReturnedBy(1)) = 1 /\ Len(ReturnedBy(3)) = 1
  /\ all_opportunities = ReturnedBy(1) \o ReturnedBy(3)

(* C3: a transport-level failure (connection error or timeout) of the
   request for one code is recoverable: fetch_contracts does not raise, the
   code contributes nothing, the loop goes on to the next code and the
   records collected so far are kept for the returned list. *)
C3_TransportFailureRecoverable ==
  (Len(http_log) > 0 /\ TransportFailed(Len(http_log))) =>
    /\ fpc \in {"loop", "returned"}
    /\ code_idx = Len(http_log) + 1
    /\ Range(ReturnedUpTo(Len(http_log) - 1)) \cap Range(all_opportunities)
         = Range(all_opportunities)

\* The records of a list that lack a notice id: absent, null or empty.
IdLess(opps) == SelectSeq(opps, LAMBDA opp : ~Truthy(NoticeIdOf(opp)))

(* C11: records lacking a notice_id (absent, null or empty) are never
   deduplicated against each other in the merge of fetch_contracts: whether
   such a record is kept does not depend on the ids seen so far, no falsy id is
   ever put in seen_notice_ids, and of the id-less records the API returned the
   result holds either every one as its own entry or none. *)
C11_IdLessNeverDeduplicated ==
  /\ \A id \in seen_notice_ids : Truthy(id)
  /\ fpc = "merge" =>
       LET notice_id == NoticeIdOf(opportunities[opp_idx])
       IN ~Truthy(notice_id) =>
            (KeepOpp(notice_id, seen_notice_ids) <=> KeepOpp(notice_id, {}))
  /\ fpc = "returned" =>
       IdLess(all_opportunities) \in {<<>>, IdLess(AllReturned)}

\* The API returned two records without an id and one with an id, every one
\* of them went through the merge, and the call returned.
C11_Witness ==
  /\ fpc = "returned"
  /\ Len(IdLess(AllReturned)) = 2
  /\ Len(AllReturned) = 3
  /\ Len(all_opportunities) = 1

(* C21: fetch_contracts issues exactly one HTTP GET per organization code,
   sequentially and in the order of org_codes: request i is for org_codes[i],
   the request for the next code is issued only after the response for the
   current one has been handled, also when that response was non-200; every
   request carries the same postedFrom/postedTo, active "true" and limit 200;
   when the call returns the number of requests is the number of codes. *)
C21_OneRequestPerCodeInOrder ==
  /\ Len(http_log) <= Len(org_codes)
  /\ \A i \in 1..Len(http_log) :
       /\ http_log[i].url = BASE_URL
       /\ http_log[i].params.organizationCode = org_codes[i]
       /\ http_log[i].params.postedFrom = posted_from
       /\ http_log[i].params.postedTo = posted_to
       /\ http_log[i].params.active = "true"
       /\ http_log[i].params.limit = 200
  /\ fpc = "merge" => code_idx = Len(http_log)
  /\ fpc = "loop" => code_idx = Len(http_log) + 1
  /\ (Len(http_log) > 0 /\ AnsweredNonOk(Len(http_log))) =>
       /\ fpc \in {"loop", "returned"}
       /\ code_idx = Len(http_log) + 1
  /\ fpc = "returned" => Len(http_log) = Len(org_codes)

\* Three codes were queried in order, the second answered non-200, and the
\* call returned.
C21_Witness ==
  /\ fpc = "returned"
  /\ Len(org_codes) = 3
  /\ Len(http_log) = 3
  /\ AnsweredNonOk(2)
  /\ http_log[3].params.organizationCode = org_codes[3]
  /\ Len(ReturnedBy(3)) > 0

\* The date arguments of fetch_contracts: None, empty, or a date.
DateArgs == {PyNone, EmptyStr, PyStr("11/05/2025"), PyStr("11/07/2025")}

\* Calls of fetch_contracts with any combination of date arguments, on
\* several days.
InitDates ==
  /\ now \in Todays
  /\ posted_from_arg \in DateArgs
  /\ posted_to_arg \in DateArgs
  /\ org_codes_arg \in {PyNone, PyList(SubSeq(CodeNames, 1, 2))}
  /\ budget = 1
  /\ FetchIdle
  /\ NormIdle
  /\ RunIdle
  /\ NameIdle
  /\ SinkIdle

SpecDates == InitDates /\ [][Next]_vars

\* The day before each of Todays, as MM/DD/YYYY.
DayBefore ==
  CASE now = [y |-> 2025, m |-> 11, d |-> 6] -> PyStr("11/05/2025")
    [] now = [y |-> 2024, m |-> 3, d |-> 1] -> PyStr("02/29/2024")
    [] now = [y |-> 2025, m |-> 3, d |-> 1] -> PyStr("02/28/2025")
    [] now = [y |-> 2025, m |-> 12, d |-> 1] -> PyStr("11/30/2025")
    [] now = [y |-> 2025, m |-> 1, d |-> 1] -> PyStr("12/31/2024")

Supplied(arg) == arg \notin {PyNone, EmptyStr}

(* C22: when no date range is supplied, fetch_contracts uses the calendar
   day before the current local date for both bounds, formatted MM/DD/YYYY;
   when both bounds are supplied they are used unchanged; and the range it
   returns is the range it sent in every request of that call. *)
C22_DateRangeDefaultsAndEcho ==
  fpc # "idle" =>
    /\ (~Supplied(posted_from_arg) /\ ~Supplied(posted_to_arg)) =>
         (posted_from = DayBefore /\ posted_to = DayBefore)
    /\ (Supplied(posted_from_arg) /\ Supplied(posted_to_arg)) =>
         (posted_from = posted_from_arg /\ posted_to = posted_to_arg)
    /\ \A i \in 1..Len(http_log) :
         /\ http_log[i].params.postedFrom = posted_from
         /\ http_log[i].params.postedTo = posted_to

\* On 1 March 2024 a call without dates queried 02/29/2024 and returned.
C22_Witness ==
  /\ fpc = "returned"
  /\ posted_from_arg = PyNone /\ posted_to_arg = PyNone
  /\ now = [y |-> 2024, m |-> 3, d |-> 1]
  /\ Len(http_log) > 0
  /\ http_log[1].params.postedFrom = PyStr("02/29/2024")
  /\ posted_to = PyStr("02/29/2024")

(* C27: when exactly one of posted_from and posted_to is supplied to
   fetch_contracts, the supplied bound is discarded: both bounds are replaced
   by yesterday's date, and the returned range never mixes a caller-supplied
   bound with a defaulted one. *)
C27_OneSidedRangeIsDiscarded ==
  (fpc # "idle" /\ Supplied(posted_from_arg) # Supplied(posted_to_arg)) =>
    /\ posted_from = DayBefore
    /\ posted_to = DayBefore
    /\ \A i \in 1..Len(http_log) :
         /\ http_log[i].params.postedFrom = DayBefore
         /\ http_log[i].params.postedTo = DayBefore

\* A call given only posted_from = "11/07/2025" on 6 November 2025 queried
\* and returned 11/05/2025 for both bounds.
C27_Witness ==
  /\ fpc = "returned"
  /\ posted_from_arg = PyStr("11/07/2025")
  /\ posted_to_arg = PyNone
  /\ now = [y |-> 2025, m |-> 11, d |-> 6]
  /\ Len(http_log) > 0
  /\ posted_from = PyStr("11/05/2025")
  /\ posted_to = PyStr("11/05/2025")

\* Request i was answered 200 with a body that has no opportunitiesData key.
KeylessOk(entry) ==
  /\ entry.outcome.kind = "response"
  /\ entry.outcome.status_code = 200
  /\ "opportunitiesData" \notin DOMAIN entry.outcome.json.v

(* C23: a 200 response whose JSON body has no opportunitiesData key
   contributes an empty list for that organization code and is not an error:
   the step that receives it leaves the merged list and the seen ids as they
   are and moves to the next code, and a call that returns after such a
   response has queried every code and holds every unique record of the
   other codes. *)
C23_MissingKeyIsAnEmptyList ==
  /\ [][(http_log' # http_log /\ KeylessOk(http_log'[Len(http_log')])) =>
          /\ all_opportunities' = all_opportunities
          /\ seen_notice_ids' = seen_notice_ids
          /\ fpc' = "loop"
          /\ code_idx' = code_idx + 1]_vars
  /\ []((fpc = "returned" /\ \E i \in 1..Len(http_log) : KeylessOk(http_log[i])) =>
          /\ Len(http_log) = Len(org_codes)
          /\ \A k \in 1..Len(AllReturned) :
               (Truthy(NoticeIdOf(AllReturned[k])) /\ FirstOfItsId(k))
                 => AllReturned[k] \in Range(all_opportunities))

\* Of three codes the second answered 200 without the key; the records of the
\* first and the third are the result.
C23_Witness ==
  /\ fpc = "returned"
  /\ Len(http_log) = 3
  /\ KeylessOk(http_log[2])
  /\ Len(ReturnedBy(1)) = 1 /\ Len(ReturnedBy(3)) = 1
  /\ all_opportunities = ReturnedBy(1) \o ReturnedBy(3)

(* C25: loop invariant of the merge in fetch_contracts.  In every state of
   the call seen_notice_ids is exactly the set of the noticeId values of the
   records in all_opportunities, all_opportunities has as many elements as
   seen_notice_ids has members, and every record in it has a non-empty
   noticeId; so duplicates inside one code's response are collapsed and no
   id-less record is in the result. *)
C25_SeenIdsMirrorMergedList ==
  /\ seen_notice_ids = {NoticeIdOf(all_opportunities[i]) : i \in 1..Len(all_opportunities)}
  /\ Len(all_opportunities) = Cardinality(seen_notice_ids)
  /\ \A i \in 1..Len(all_opportunities) : Truthy(NoticeIdOf(all_opportunities[i]))

\* One response carried the same notice id twice and a record without an id;
\* after the three went through the merge the list holds one record.
C25_Witness ==
  /\ fpc = "loop"
  /\ Len(http_log) = 1
  /\ Len(ReturnedBy(1)) = 3
  /\ Truthy(NoticeIdOf(ReturnedBy(1)[1]))
  /\ NoticeIdOf(ReturnedBy(1)[1]) = NoticeIdOf(ReturnedBy(1)[3])
  /\ ~Truthy(NoticeIdOf(ReturnedBy(1)[2]))
  /\ Len(all_opportunities) = 1
  /\ Cardinality(seen_notice_ids) = 1

\* Of the first n records of s, those that carry a non-empty notice id no
\* earlier record carries, in the order of s.
RECURSIVE FirstOccurrences(_, _)
FirstOccurrences(s, n) ==
  IF n = 0 THEN <<>>
  ELSE IF /\ Truthy(NoticeIdOf(s[n]))
          /\ \A j \in 1..(n - 1) : NoticeIdOf(s[j]) # NoticeIdOf(s[n])
       THEN Append(FirstOccurrences(s, n - 1), s[n])
       ELSE FirstOccurrences(s, n - 1)

(* C26: the merged result of fetch_contracts is sound and complete with
   respect to the responses.  Every returned record is an element of the
   opportunitiesData of a code that answered 200, every non-empty noticeId of
   a 200 response occurs in the result, and the result is ordered by first
   occurrence in the responses concatenated in org_codes order. *)
C26_ResultSoundCompleteOrdered ==
  fpc = "returned" =>
    LET returned == AllReturned
    IN /\ \A i \in 1..Len(all_opportunities) :
            \E r \in 1..Len(http_log) :
              AnsweredOk(r) /\ \E k \in 1..Len(ReturnedBy(r)) :
                                 ReturnedBy(r)[k] = all_opportunities[i]
       /\ \A k \in 1..Len(returned) :
            Truthy(NoticeIdOf(returned[k])) =>
              \E i \in 1..Len(all_opportunities) :
                NoticeIdOf(all_opportunities[i]) = NoticeIdOf(returned[k])
       /\ all_opportunities = FirstOccurrences(returned, Len(returned))

\* Two codes answered 200, the second repeating the first notice id after a
\* new one: three records returned, two in the result, in the order they first
\* occurred.
C26_Witness ==
  /\ fpc = "returned"
  /\ Len(http_log) >= 2
  /\ Len(ReturnedBy(1)) = 1 /\ Len(ReturnedBy(2)) = 2
  /\ Truthy(NoticeIdOf(ReturnedBy(2)[1]))
  /\ NoticeIdOf(ReturnedBy(2)[1]) # NoticeIdOf(ReturnedBy(1)[1])
  /\ NoticeIdOf(ReturnedBy(2)[2]) = NoticeIdOf(ReturnedBy(1)[1])
  /\ all_opportunities = <<ReturnedBy(1)[1], ReturnedBy(2)[1]>>

----------------------------------------------------------------------------
(* Two successive calls of fetch_contracts with the same arguments.  The
   names of the first call's frame keep their last values until the second
   call binds them again: whatever the second call starts from is what lines
   34-45 assign. *)

\* Most records the API returns over one call when two calls are made.
AgainOpps == 2

\* The first call has returned and the caller calls again.
FetchAgain ==
  /\ fpc = "returned"
  /\ ~prior.made
  /\ prior' = [made |-> TRUE, log |-> http_log, result |-> all_opportunities]
  /\ fpc' = "idle"
  /\ http_log' = <<>>
  /\ budget' = AgainOpps
  /\ UNCHANGED <<now, posted_from_arg, posted_to_arg, org_codes_arg, posted_from,
                 posted_to, org_codes, code_idx, opportunities, opp_idx,
                 all_opportunities, seen_notice_ids>>
  /\ UNCHANGED <<norm_vars, run_vars, name_vars, sink_vars>>

InitAgain ==
  /\ now \in {t \in Todays : t.m = 11}
  /\ posted_from_arg = PyNone
  /\ posted_to_arg = PyNone
  /\ org_codes_arg \in {PyList(SubSeq(CodeNames, 1, n)) : n \in 1..2}
  /\ budget = AgainOpps
  /\ FetchIdle
  /\ NormIdle
  /\ RunIdle
  /\ NameIdle
  /\ SinkIdle

NextAgain == FetchCall \/ Request \/ MergeOpp \/ FetchReturn \/ FetchAgain

SpecAgain == InitAgain /\ [][NextAgain]_vars

(* C24: no identity is carried between invocations.  Every call starts its
   loop with an empty set of seen notice ids and an empty merged list, and a
   second call that issued the same requests and got the same answers as the
   first returns the same merged list, so a notice returned by the first is
   returned again. *)
C24_NothingCarriedBetweenCalls ==
  /\ [][(fpc = "idle" /\ fpc' = "loop") =>
          (seen_notice_ids' = {} /\ all_opportunities' = <<>>)]_vars
  /\ []((fpc = "returned" /\ prior.made /\ http_log = prior.log) =>
          all_opportunities = prior.result)

\* The second call got the answers of the first and returned its two notices
\* again.
C24_Witness ==
  /\ fpc = "returned"
  /\ prior.made
  /\ http_log = prior.log
  /\ Len(prior.result) = 2
  /\ all_opportunities = prior.result

----------------------------------------------------------------------------
(* The record normalizers: process_contracts (src/src/fetcher.py lines 84-120,
   repeated in src/src/run_job.py lines 213-241) and process_data
   (src/src/fetcher/data_processor.py). *)

\* The value of a dict literal whose entries evaluated to rec: the dict, or
\* the exception of the first entry, in the order of keys, that raised.
DictLiteral(rec, keys) ==
  LET bad == {i \in 1..Len(keys) : keys[i] \in DOMAIN rec /\ IsRaised(rec[keys[i]])}
  IN IF bad = {} THEN PyDict(rec)
     ELSE rec[keys[CHOOSE i \in bad : \A j \in bad : i <= j]]

ContractKeys ==
  <<"notice_id", "title", "solicitation_number", "posted_date", "response_deadline",
    "type", "naics_code", "active", "organization", "office_city", "office_state",
    "contact_email", "contact_phone", "ui_link", "set_aside">>

\* Line 98: office_address = item.get("officeAddress") or {}
OfficeAddressOf_NoOr(item) == PyGet(item, "officeAddress", EmptyDict)
OfficeAddressOf(item) == PyOr(PyGet(item, "officeAddress", PyNone), EmptyDict)

\* Lines 99-100: the first point of contact, {} without one.
FirstContactOf_Last(item) ==
  LET point_of_contact == PyOr(PyGet(item, "pointOfContact", PyNone), EmptyList)
  IN IF Truthy(point_of_contact) /\ point_of_contact.t = "list"
     THEN point_of_contact.v[Len(point_of_contact.v)]
     ELSE EmptyDict
FirstContactOf(item) ==
  LET point_of_contact == PyOr(PyGet(item, "pointOfContact", PyNone), EmptyList)
  IN IF Truthy(point_of_contact) THEN PyIndex0(point_of_contact) ELSE EmptyDict

\* Lines 103-117: the entries of the dict literal.
ContractFields(item, office_address, first_contact) ==
  [notice_id |-> PyGet(item, "noticeId", EmptyStr),
   title |-> PyGet(item, "title", EmptyStr),
   solicitation_number |-> PyGet(item, "solicitationNumber", EmptyStr),
   posted_date |-> PyGet(item, "postedDate", EmptyStr),
   response_deadline |-> PyGet(item, "responseDeadLine", EmptyStr),
   type |-> PyGet(item, "type", EmptyStr),
   naics_code |-> PyGet(item, "naicsCode", EmptyStr),
   active |-> PyGet(item, "active", EmptyStr),
   organization |-> PyGet(item, "fullParentPathName", EmptyStr),
   office_city |-> PyGet(office_address, "city", EmptyStr),
   office_state |-> PyGet(office_address, "state", EmptyStr),
   contact_email |-> PyGet(first_contact, "email", EmptyStr),
   contact_phone |-> PyGet(first_contact, "phone", EmptyStr),
   ui_link |-> PyGet(item, "uiLink", EmptyStr),
   set_aside |-> PyGet(item, "typeOfSetAsideDescription", EmptyStr)]

\* Lines 102-118: the dict appended for one item has every entry.
ContractRecord_SkipEmpty(item, office_address, first_contact) ==
  LET rec == ContractFields(item, office_address, first_contact)
  IN [k \in {f \in DOMAIN rec : rec[f] # EmptyStr} |-> rec[k]]
ContractRecord(item, office_address, first_contact) ==
  ContractFields(item, office_address, first_contact)

\* Lines 96-118: the body of the loop for one item, a dict or an exception.
ProcessContract(item) ==
  LET office_address == OfficeAddressOf(item)
      first_contact == FirstContactOf(item)
      rec == ContractRecord(item, office_address, first_contact)
  IN IF IsRaised(first_contact) THEN first_contact
     ELSE DictLiteral(rec, ContractKeys)

DataKeys ==
  <<"notice_id", "title", "solicitation_number", "posted_date", "response_deadline",
    "type", "naics_code", "classification_code", "active", "organization_path",
    "office_city", "office_state", "office_zip", "contact_email", "contact_phone",
    "contact_name", "ui_link", "set_aside_type">>

\* data_processor.py lines 5-24: processed_item for one item.
ProcessDataItem(item) ==
  LET office == PyGet(item, "officeAddress", EmptyDict)
      contact == PyIndex0(PyGet(item, "pointOfContact", PyList(<<EmptyDict>>)))
  IN DictLiteral(
       [notice_id |-> PyGet(item, "noticeId", EmptyStr),
        title |-> PyGet(item, "title", EmptyStr),
        solicitation_number |-> PyGet(item, "solicitationNumber", EmptyStr),
        posted_date |-> PyGet(item, "postedDate", EmptyStr),
        response_deadline |-> PyGet(item, "responseDeadLine", EmptyStr),
        type |-> PyGet(item, "type", EmptyStr),
        naics_code |-> PyGet(item, "naicsCode", EmptyStr),
        classification_code |-> PyGet(item, "classificationCode", EmptyStr),
        active |-> PyGet(item, "active", EmptyStr),
        organization_path |-> PyGet(item, "fullParentPathName", EmptyStr),
        office_city |-> PyGet(office, "city", EmptyStr),
        office_state |-> PyGet(office, "state", EmptyStr),
        office_zip |-> PyGet(office, "zipcode", EmptyStr),
        contact_email |-> PyGet(contact, "email", EmptyStr),
        contact_phone |-> PyGet(contact, "phone", EmptyStr),
        contact_name |-> PyGet(contact, "fullName", EmptyStr),
        ui_link |-> PyGet(item, "uiLink", EmptyStr),
        set_aside_type |-> PyGet(item, "typeOfSetAsideDescription", EmptyStr)],
       DataKeys)

\* processed.append(...), line 102; processed_data.append(...), line 25.
AppendRecord_Front(list, rec) == <<rec>> \o list
AppendRecord(list, rec) == Append(list, rec)

\* Line 94 (process_contracts) and line 2 (process_data): the empty output.
NormCall ==
  /\ npc = "idle"
  /\ processed' = <<>>
  /\ item_idx' = 1
  /\ npc' = "loop"
  /\ UNCHANGED <<variant, raw_data>>
  /\ NormOnly

\* One iteration of a normalizer's loop: the record is appended, or the
\* exception leaves the function.
NormStep(rec) ==
  /\ IF IsRaised(rec)
     THEN npc' = "raised" /\ UNCHANGED <<processed, item_idx>>
     ELSE /\ processed' = AppendRecord(processed, rec)
          /\ item_idx' = item_idx + 1
          /\ npc' = npc
  /\ UNCHANGED <<variant, raw_data>>

\* fetcher.py lines 96-118.
ProcessContractsStep ==
  /\ variant = "process_contracts"
  /\ npc = "loop"
  /\ item_idx <= Len(raw_data)
  /\ NormStep(ProcessContract(raw_data[item_idx]))
  /\ NormOnly

\* data_processor.py lines 4-25.
ProcessDataStep ==
  /\ variant = "process_data"
  /\ npc = "loop"
  /\ item_idx <= Len(raw_data)
  /\ NormStep(ProcessDataItem(raw_data[item_idx]))
  /\ NormOnly

\* return processed, line 120; return processed_data, line 27.
NormReturn ==
  /\ npc = "loop"
  /\ item_idx > Len(raw_data)
  /\ npc' = "returned"
  /\ UNCHANGED <<variant, raw_data, processed, item_idx>>
  /\ NormOnly

----------------------------------------------------------------------------
(* The raw opportunities the normalizers are run on. *)

\* A key that the record does not have.
Absent == [t |-> "absent"]
WithKey(f, k, val) == IF val = Absent THEN f ELSE (k :> val) @@ f

\* Every scalar field present, as a string.
AllStrings(id) ==
  [noticeId |-> PyStr(id), title |-> PyStr("IT support services"),
   solicitationNumber |-> PyStr("70RSAT25R00000012"),
   postedDate |-> PyStr("2025-11-05"),
   responseDeadLine |-> PyStr("2025-12-01T17:00:00-05:00"),
   type |-> PyStr("Solicitation"), naicsCode |-> PyStr("541512"),
   classificationCode |-> PyStr("D399"), active |-> PyStr("Yes"),
   fullParentPathName |-> PyStr("HOMELAND SECURITY, DEPARTMENT OF"),
   uiLink |-> PyStr("https://sam.gov/opp/1/view"),
   typeOfSetAsideDescription |-> PyStr("Total Small Business Set-Aside")]

\* No expected scalar field at all.
NoScalars == <<>>
\* Null, numeric and boolean scalar fields; the other fields absent.
TypedScalars ==
  [noticeId |-> PyStr("N3"), title |-> PyNone, naicsCode |-> PyNum(541512),
   active |-> PyBool(TRUE)]
\* Keys the normalizers do not know.
ExtraScalars ==
  [description |-> PyStr("https://api.sam.gov/desc"), award |-> PyDict([amount |-> PyNum(100000)])]
    @@ AllStrings("N4")

ScalarProfiles == {AllStrings("N1"), AllStrings("N2"), NoScalars, TypedScalars, ExtraScalars}

GoodOffice == PyDict([city |-> PyStr("Washington"), state |-> PyStr("DC"), zipcode |-> PyStr("20528")])
Contact1 == PyDict([email |-> PyStr("a@hq.dhs.gov"), phone |-> PyStr("2025550101"), fullName |-> PyStr("A")])
Contact2 == PyDict([email |-> PyStr("b@hq.dhs.gov"), phone |-> PyStr("2025550102"), fullName |-> PyStr("B")])
GoodPoc == PyList(<<Contact1>>)

\* officeAddress: absent, null, or an object (here also without its fields).
ShapedOffices == {Absent, PyNone, EmptyDict, PyDict([state |-> PyStr("VA")]), GoodOffice}
\* officeAddress of an unexpected type.
OddOffices == {PyStr("x"), PyNum(5)}
\* pointOfContact: absent, null, or a list of objects.
ShapedPocs ==
  {Absent, PyNone, EmptyList, PyList(<<EmptyDict>>), GoodPoc, PyList(<<Contact1, Contact2>>),
   PyList(<<Contact1, EmptyDict>>)}
\* pointOfContact of an unexpected type, or with an entry that is no object.
OddPocs == {PyStr("x"), PyList(<<PyNone>>), PyList(<<PyStr("x")>>), PyDict([email |-> PyStr("c@hq.dhs.gov")])}

RawItem(scalars, office, poc) ==
  PyDict(WithKey(WithKey(scalars, "officeAddress", office), "pointOfContact", poc))

RawItems ==
  {RawItem(s, GoodOffice, GoodPoc) : s \in ScalarProfiles}
    \cup {RawItem(AllStrings("N1"), o, GoodPoc) : o \in ShapedOffices \cup OddOffices}
    \cup {RawItem(AllStrings("N1"), GoodOffice, p) : p \in ShapedPocs \cup OddPocs}
    \cup {RawItem(s, o, p) : s \in {NoScalars, TypedScalars},
                             o \in {Absent, PyNone, EmptyDict},
                             p \in {Absent, PyNone, EmptyList}}

InitNorm ==
  /\ variant \in {"process_contracts", "process_data"}
  /\ raw_data \in SeqsUpTo(RawItems, MaxItems)
  /\ processed = <<>>
  /\ item_idx = 0
  /\ npc = "idle"
  /\ now = [y |-> 2025, m |-> 11, d |-> 6]
  /\ posted_from_arg = PyNone
  /\ posted_to_arg = PyNone
  /\ org_codes_arg = PyNone
  /\ budget = 0
  /\ FetchIdle
  /\ RunIdle
  /\ NameIdle
  /\ SinkIdle

NextNorm == NormCall \/ ProcessContractsStep \/ ProcessDataStep \/ NormReturn

SpecNorm == InitNorm /\ [][NextNorm]_vars

----------------------------------------------------------------------------
(* The shapes of the nested values of a raw opportunity. *)

HasKey(item, k) == k \in DOMAIN item.v
\* officeAddress is missing or null.
OfficeMissing(item) ==
  ~HasKey(item, "officeAddress") \/ item.v["officeAddress"] = PyNone
\* pointOfContact is missing, null or an empty list.
PocMissing(item) ==
  \/ ~HasKey(item, "pointOfContact")
  \/ item.v["pointOfContact"] \in {PyNone, EmptyList}
\* officeAddress is missing, null or an object.
OfficeShaped(item) == OfficeMissing(item) \/ item.v["officeAddress"].t = "dict"
\* pointOfContact is missing, null or a list of objects.
PocShaped(item) ==
  \/ PocMissing(item)
  \/ /\ item.v["pointOfContact"].t = "list"
     /\ \A c \in Range(item.v["pointOfContact"].v) : c.t = "dict"

\* The raw key each scalar output field is read from.
ScalarSource ==
  [notice_id |-> "noticeId", title |-> "title",
   solicitation_number |-> "solicitationNumber", posted_date |-> "postedDate",
   response_deadline |-> "responseDeadLine", type |-> "type",
   naics_code |-> "naicsCode", active |-> "active",
   organization |-> "fullParentPathName", ui_link |-> "uiLink",
   set_aside |-> "typeOfSetAsideDescription"]

(* C5: process_contracts does not raise on an opportunity whose officeAddress
   is missing, null or an object and whose pointOfContact is missing, null,
   empty or a list of objects, and it returns the empty string for office_city
   and office_state when officeAddress is missing or null or lacks the field,
   for contact_email and contact_phone when pointOfContact is missing, null or
   empty or its first entry lacks the field, and for every scalar field the
   opportunity lacks. *)
C5_MissingFieldsGiveEmptyStrings ==
  variant = "process_contracts" =>
    /\ npc = "raised" =>
         ~(OfficeShaped(raw_data[item_idx]) /\ PocShaped(raw_data[item_idx]))
    /\ \A i \in 1..Len(processed) :
         LET item == raw_data[i]
             out == processed[i].v
         IN /\ OfficeMissing(item) =>
                 out["office_city"] = EmptyStr /\ out["office_state"] = EmptyStr
            /\ PocMissing(item) =>
                 out["contact_email"] = EmptyStr /\ out["contact_phone"] = EmptyStr
            /\ (OfficeShaped(item) /\ ~OfficeMissing(item)) =>
                 /\ ~HasKey(item.v["officeAddress"], "city")
                      => out["office_city"] = EmptyStr
                 /\ ~HasKey(item.v["officeAddress"], "state")
                      => out["office_state"] = EmptyStr
            /\ (PocShaped(item) /\ ~PocMissing(item)) =>
                 /\ ~HasKey(item.v["pointOfContact"].v[1], "email")
                      => out["contact_email"] = EmptyStr
                 /\ ~HasKey(item.v["pointOfContact"].v[1], "phone")
                      => out["contact_phone"] = EmptyStr
            /\ \A f \in DOMAIN ScalarSource :
                 ~HasKey(item, ScalarSource[f]) => out[f] = EmptyStr

\* process_contracts returned for an opportunity with a null officeAddress, an
\* empty pointOfContact list and no scalar field.
C5_Witness ==
  /\ variant = "process_contracts"
  /\ npc = "returned"
  /\ \E i \in 1..Len(raw_data) :
       /\ raw_data[i] = RawItem(NoScalars, PyNone, EmptyList)
       /\ processed[i].v["office_city"] = EmptyStr
       /\ processed[i].v["contact_email"] = EmptyStr
  /\ \E i \in 1..Len(raw_data) : raw_data[i] = RawItem(NoScalars, Absent, Absent)

(* C6: process_data returns one record per item without raising for every
   input whose officeAddress is missing or null (or an object) and whose
   pointOfContact is missing or an empty list (or a list of objects), with the
   office_* and contact_* fields of a missing value equal to the empty
   string. *)
C6_ProcessDataToleratesMissingNested ==
  variant = "process_data" =>
    /\ npc = "raised" =>
         \/ ~OfficeShaped(raw_data[item_idx])
         \/ ~PocShaped(raw_data[item_idx])
         \/ (HasKey(raw_data[item_idx], "pointOfContact")
               /\ raw_data[item_idx].v["pointOfContact"] = PyNone)
    /\ npc = "returned" => Len(processed) = Len(raw_data)
    /\ \A i \in 1..Len(processed) :
         /\ OfficeMissing(raw_data[i]) =>
              /\ processed[i].v["office_city"] = EmptyStr
              /\ processed[i].v["office_state"] = EmptyStr
              /\ processed[i].v["office_zip"] = EmptyStr
         /\ PocMissing(raw_data[i]) =>
              /\ processed[i].v["contact_email"] = EmptyStr
              /\ processed[i].v["contact_phone"] = EmptyStr
              /\ processed[i].v["contact_name"] = EmptyStr

(* C7: every value of every record the normalizer produces is a string: an
   absent or null source field gives the empty string and a numeric or
   boolean one is stringified. *)
C7_EveryValueIsAString ==
  variant = "process_contracts" =>
    \A i \in 1..Len(processed) :
      \A f \in DOMAIN processed[i].v : processed[i].v[f].t = "str"

(* C8: the normalizer is total over JSON-shaped input: an officeAddress that
   is no object and a pointOfContact that is no list of objects are treated as
   absent, the derived fields are empty strings and nothing is raised. *)
C8_TotalOverJsonShapes ==
  variant = "process_contracts" =>
    /\ npc # "raised"
    /\ \A i \in 1..Len(processed) :
         /\ ~OfficeShaped(raw_data[i]) =>
              /\ processed[i].v["office_city"] = EmptyStr
              /\ processed[i].v["office_state"] = EmptyStr
         /\ ~PocShaped(raw_data[i]) =>
              /\ processed[i].v["contact_email"] = EmptyStr
              /\ processed[i].v["contact_phone"] = EmptyStr

NormalizedKeySet ==
  {"notice_id", "title", "solicitation_number", "posted_date", "response_deadline",
   "type", "naics_code", "active", "organization", "office_city", "office_state",
   "contact_email", "contact_phone", "ui_link", "set_aside"}

(* C9: whatever unknown keys an opportunity carries and whichever expected
   keys it lacks, the record process_contracts produces for it has exactly
   the fixed key set. *)
C9_FixedKeySet ==
  variant = "process_contracts" =>
    \A i \in 1..Len(processed) : DOMAIN processed[i].v = NormalizedKeySet

\* process_contracts returned records for an opportunity with unknown keys
\* and for one without any expected key.
C9_Witness ==
  /\ variant = "process_contracts"
  /\ npc = "returned"
  /\ Len(processed) = 2
  /\ \E i \in 1..2 : HasKey(raw_data[i], "description") /\ HasKey(raw_data[i], "award")
  /\ \E i \in 1..2 : DOMAIN raw_data[i].v = {}

(* C10: process_contracts returns exactly one record per input opportunity,
   in the order of the input (the i-th record is derived from the i-th
   opportunity), and never modifies its input. *)
C10_OneRecordPerItemInOrder ==
  /\ [](variant = "process_contracts" =>
          /\ \A i \in 1..Len(processed) :
               /\ i <= Len(raw_data)
               /\ processed[i].v["notice_id"] = PyGet(raw_data[i], "noticeId", EmptyStr)
               /\ processed[i].v["title"] = PyGet(raw_data[i], "title", EmptyStr)
          /\ npc = "returned" => Len(processed) = Len(raw_data))
  /\ [][raw_data' = raw_data]_vars

\* process_contracts returned for two opportunities with different notice ids.
C10_Witness ==
  /\ variant = "process_contracts"
  /\ npc = "returned"
  /\ Len(raw_data) = 2
  /\ Len(processed) = 2
  /\ NoticeIdOf(raw_data[1]) = PyStr("N1")
  /\ NoticeIdOf(raw_data[2]) = PyStr("N2")

\* Two raw opportunities with a non-empty pointOfContact list that are alike
\* in every key but pointOfContact and in the first entry of that list.
SameButLaterContacts(a, b) ==
  /\ DOMAIN a.v = DOMAIN b.v
  /\ HasKey(a, "pointOfContact")
  /\ a.v["pointOfContact"].t = "list" /\ b.v["pointOfContact"].t = "list"
  /\ Len(a.v["pointOfContact"].v) > 0 /\ Len(b.v["pointOfContact"].v) > 0
  /\ a.v["pointOfContact"].v[1] = b.v["pointOfContact"].v[1]
  /\ \A k \in DOMAIN a.v \ {"pointOfContact"} : a.v[k] = b.v[k]

(* C20: only the first entry of the raw pointOfContact list determines
   contact_email and contact_phone: two raw opportunities that differ only in
   pointOfContact entries after the first normalize to identical records,
   whose contact fields are those of the first entry. *)
C20_OnlyFirstContactCounts ==
  \A i, j \in 1..Len(processed) :
    SameButLaterContacts(raw_data[i], raw_data[j]) =>
      /\ processed[i] = processed[j]
      /\ processed[i].v["contact_email"]
           = PyGet(raw_data[i].v["pointOfContact"].v[1], "email", EmptyStr)
      /\ processed[i].v["contact_phone"]
           = PyGet(raw_data[i].v["pointOfContact"].v[1], "phone", EmptyStr)

\* process_contracts returned for two opportunities that differ in a second
\* contact only.
C20_Witness ==
  /\ variant = "process_contracts"
  /\ npc = "returned"
  /\ Len(processed) = 2
  /\ raw_data[1] # raw_data[2]
  /\ SameButLaterContacts(raw_data[1], raw_data[2])
  /\ processed[1] = processed[2]
  /\ processed[1].v["contact_email"] = PyStr("a@hq.dhs.gov")

----------------------------------------------------------------------------
(* generate_filename, src/src/main.py lines 42-55 (the same function is in
   src/local/test_main.py lines 56-69).  A str is the sequence of its
   characters, so that strptime is a parser and not a lookup. *)

IsDigit(c) == c \in Range(DigitChar)
IsDigit1to9(c) == IsDigit(c) /\ c # "0"
DigitVal(c) == CHOOSE n \in 0..9 : DigitChar[n + 1] = c

\* int(text) for the groups strptime matched: digits, after an optional blank.
RECURSIVE IntOf(_)
IntOf(cs) ==
  IF cs = <<>> THEN 0
  ELSE IF cs[1] = " " THEN IntOf(Tail(cs))
  ELSE IntOf(SubSeq(cs, 1, Len(cs) - 1)) * 10 + DigitVal(cs[Len(cs)])

\* The groups of the regular expression strptime compiles "%m/%d/%Y" to:
\*   m  1[0-2]|0[1-9]|[1-9]        d  3[0-1]|[1-2]\d|0[1-9]|[1-9]| [1-9]
\*   Y  \d\d\d\d
MatchesMonth(cs) ==
  \/ Len(cs) = 2 /\ cs[1] = "1" /\ cs[2] \in {"0", "1", "2"}
  \/ Len(cs) = 2 /\ cs[1] = "0" /\ IsDigit1to9(cs[2])
  \/ Len(cs) = 1 /\ IsDigit1to9(cs[1])
MatchesDay(cs) ==
  \/ Len(cs) = 2 /\ cs[1] = "3" /\ cs[2] \in {"0", "1"}
  \/ Len(cs) = 2 /\ cs[1] \in {"1", "2"} /\ IsDigit(cs[2])
  \/ Len(cs) = 2 /\ cs[1] \in {"0", " "} /\ IsDigit1to9(cs[2])
  \/ Len(cs) = 1 /\ IsDigit1to9(cs[1])
MatchesYear(cs) == Len(cs) = 4 /\ \A i \in 1..4 : IsDigit(cs[i])

\* The ways text splits into month "/" day "/" year with nothing left over;
\* there is at most one, as the character after a group is a "/" or the end.
StrptimeSplits(text) ==
  {ab \in {1, 2} \X {1, 2} :
     /\ Len(text) = ab[1] + ab[2] + 6
     /\ MatchesMonth(SubSeq(text, 1, ab[1]))
     /\ text[ab[1] + 1] = "/"
     /\ MatchesDay(SubSeq(text, ab[1] + 2, ab[1] + ab[2] + 1))
     /\ text[ab[1] + ab[2] + 2] = "/"
     /\ MatchesYear(SubSeq(text, ab[1] + ab[2] + 3, ab[1] + ab[2] + 6))}

\* datetime.strptime(text, "%m/%d/%Y"): the date, or ValueError when the text
\* does not match, data remains, or the day or the year is out of range.
Strptime(text) ==
  IF StrptimeSplits(text) = {} THEN Raised("ValueError")
  ELSE LET ab == CHOOSE x \in StrptimeSplits(text) : TRUE
           month == IntOf(SubSeq(text, 1, ab[1]))
           day == IntOf(SubSeq(text, ab[1] + 2, ab[1] + ab[2] + 1))
           year == IntOf(SubSeq(text, ab[1] + ab[2] + 3, ab[1] + ab[2] + 6))
       IN IF year < 1 \/ day > DaysIn(year, month) THEN Raised("ValueError")
          ELSE [t |-> "datetime", y |-> year, m |-> month, d |-> day]

\* The decimal digits of n without padding.
RECURSIVE Decimal(_)
Decimal(n) == IF n < 10 THEN Digit(n) ELSE Decimal(n \div 10) \o Digit(n % 10)

\* strftime's %Y: the C library does not pad a year below 1000.
StrftimeY(y) == IF y >= 1000 THEN Pad4(y) ELSE Decimal(y)

\* dt.strftime("%Y%m%d") and dt.strftime("%Y%m%d_%H%M%S")
StrftimeYmd(dt) == StrftimeY(dt.y) \o Pad2(dt.m) \o Pad2(dt.d)
StrftimeYmdHMS(dt) ==
  StrftimeYmd(dt) \o "_" \o Pad2(dt.H) \o Pad2(dt.M) \o Pad2(dt.S)

\* Line 55: the fallback name.
TimestampName(dt) == PyStr("contracts_" \o StrftimeYmdHMS(dt) \o ".json")

\* Line 47: the two arguments are compared as strings.
SameRange_Always(from, to) == TRUE
SameRange(from, to) == from = to

\* Lines 44-55.
generate_filename(from, to, dt) ==
  LET date_obj == Strptime(from)
  IN IF IsRaised(date_obj) THEN TimestampName(dt)
     ELSE IF ~SameRange(from, to)
     THEN LET date_obj_end == Strptime(to)
          IN IF IsRaised(date_obj_end) THEN TimestampName(dt)
             ELSE PyStr("contracts_" \o StrftimeYmd(date_obj) \o "_to_"
                          \o StrftimeYmd(date_obj_end) \o ".json")
     ELSE PyStr("contracts_" \o StrftimeYmd(date_obj) \o ".json")

GenerateFilename ==
  /\ filename = PyNone
  /\ filename' = generate_filename(name_from, name_to, clock)
  /\ UNCHANGED <<name_from, name_to, clock>>
  /\ NameOnly

\* The date arguments of the model, each with the calendar day it denotes as
\* MM/DD/YYYY (valid is FALSE for a text that denotes none): padded and
\* unpadded spellings of one day, a leap day, days and months out of range,
\* other formats, trailing data, the empty string, a year below 1000.
DateTexts ==
  {[text |-> <<"1", "1", "/", "0", "5", "/", "2", "0", "2", "5">>,
     valid |-> TRUE, y |-> 2025, m |-> 11, d |-> 5],
    [text |-> <<"1", "1", "/", "5", "/", "2", "0", "2", "5">>,
     valid |-> TRUE, y |-> 2025, m |-> 11, d |-> 5],
    [text |-> <<"1", "1", "/", "0", "7", "/", "2", "0", "2", "5">>,
     valid |-> TRUE, y |-> 2025, m |-> 11, d |-> 7],
    [text |-> <<"1", "/", "5", "/", "2", "0", "2", "5">>,
     valid |-> TRUE, y |-> 2025, m |-> 1, d |-> 5],
    [text |-> <<"0", "2", "/", "2", "9", "/", "2", "0", "2", "4">>,
     valid |-> TRUE, y |-> 2024, m |-> 2, d |-> 29],
    [text |-> <<"1", "1", "/", " ", "5", "/", "2", "0", "2", "5">>,
     valid |-> TRUE, y |-> 2025, m |-> 11, d |-> 5],
    [text |-> <<"1", "2", "/", "3", "1", "/", "2", "0", "2", "4">>,
     valid |-> TRUE, y |-> 2024, m |-> 12, d |-> 31],
    [text |-> <<"1", "1", "/", "0", "5", "/", "0", "9", "9", "9">>,
     valid |-> TRUE, y |-> 999, m |-> 11, d |-> 5],
    [text |-> <<"0", "2", "/", "2", "9", "/", "2", "0", "2", "5">>,
     valid |-> FALSE, y |-> 0, m |-> 0, d |-> 0],
    [text |-> <<"1", "3", "/", "0", "1", "/", "2", "0", "2", "5">>,
     valid |-> FALSE, y |-> 0, m |-> 0, d |-> 0],
    [text |-> <<"0", "0", "/", "0", "5", "/", "2", "0", "2", "5">>,
     valid |-> FALSE, y |-> 0, m |-> 0, d |-> 0],
    [text |-> <<"1", "1", "/", "0", "5", "/", "2", "5">>,
     valid |-> FALSE, y |-> 0, m |-> 0, d |-> 0],
    [text |-> <<"2", "0", "2", "5", "-", "1", "1", "-", "0", "5">>,
     valid |-> FALSE, y |-> 0, m |-> 0, d |-> 0],
    [text |-> <<"1", "1", "/", "0", "5", "/", "2", "0", "2", "5", " ">>,
     valid |-> FALSE, y |-> 0, m |-> 0, d |-> 0],
    [text |-> <<>>,
     valid |-> FALSE, y |-> 0, m |-> 0, d |-> 0] }

\* What datetime.now() gives in the fallback of line 55.
Clocks ==
  { [y |-> 2025, m |-> 11, d |-> 6, H |-> 9, M |-> 5, S |-> 3],
    [y |-> 2024, m |-> 12, d |-> 31, H |-> 23, M |-> 59, S |-> 59] }

InitName ==
  /\ name_from \in {e.text : e \in DateTexts}
  /\ name_to \in {e.text : e \in DateTexts}
  /\ clock \in Clocks
  /\ filename = PyNone
  /\ now = [y |-> 2025, m |-> 11, d |-> 6]
  /\ posted_from_arg = PyNone
  /\ posted_to_arg = PyNone
  /\ org_codes_arg = PyNone
  /\ budget = 0
  /\ FetchIdle
  /\ NormIdle
  /\ RunIdle
  /\ SinkIdle

NextName == GenerateFilename

SpecName == InitName /\ [][NextName]_vars

\* The calendar day an argument denotes, and its YYYYMMDD rendering.
DayOf(text) == CHOOSE e \in DateTexts : e.text = text
SameDay(a, b) == DayOf(a).y = DayOf(b).y /\ DayOf(a).m = DayOf(b).m /\ DayOf(a).d = DayOf(b).d
YYYYMMDD(e) == Pad4(e.y) \o Pad2(e.m) \o Pad2(e.d)

\* The names the three cases of generate_filename are to give.
SingleDayName(from) == PyStr("contracts_" \o YYYYMMDD(from) \o ".json")
RangeName(from, to) ==
  PyStr("contracts_" \o YYYYMMDD(from) \o "_to_" \o YYYYMMDD(to) \o ".json")
FallbackName ==
  PyStr("contracts_" \o YYYYMMDD(clock) \o "_" \o Pad2(clock.H) \o Pad2(clock.M)
          \o Pad2(clock.S) \o ".json")
\* A date that generate_filename parses does not parse.
ParseFails ==
  ~DayOf(name_from).valid \/ (name_from # name_to /\ ~DayOf(name_to).valid)

(* C12 as stated: generate_filename returns contracts_<YYYYMMDD>.json when
   posted_from and posted_to are the same parseable MM/DD/YYYY string,
   contracts_<YYYYMMDD>_to_<YYYYMMDD>.json when they are two different
   parseable dates, and the timestamp name contracts_<8 digits>_<6 digits>.json
   of the current time when a date it parses (posted_from, and posted_to when
   the strings differ) is not a valid MM/DD/YYYY date. *)
C12_FilenameForms ==
  filename # PyNone =>
    LET from == DayOf(name_from)
        to == DayOf(name_to)
    IN /\ (from.valid /\ name_from = name_to) => filename = SingleDayName(from)
       /\ (from.valid /\ to.valid /\ ~SameDay(name_from, name_to)) =>
            filename = RangeName(from, to)
       /\ ParseFails => filename = FallbackName

(* C12 amended: the same three forms, the two dated ones for parseable dates
   whose year is 1000 or later; %Y renders an earlier year without leading
   zeros, so that the date part has fewer than eight digits. *)
C12_FilenameFormsFromYear1000 ==
  filename # PyNone =>
    LET from == DayOf(name_from)
        to == DayOf(name_to)
    IN /\ (from.valid /\ from.y >= 1000 /\ name_from = name_to) =>
            filename = SingleDayName(from)
       /\ (from.valid /\ to.valid /\ from.y >= 1000 /\ to.y >= 1000
             /\ ~SameDay(name_from, name_to)) =>
            filename = RangeName(from, to)
       /\ ParseFails => filename = FallbackName

\* generate_filename("11/05/2025", "11/07/2025") returned the range name.
C12_Witness ==
  /\ DayOf(name_from).valid /\ DayOf(name_to).valid
  /\ ~SameDay(name_from, name_to)
  /\ filename = PyStr("contracts_20251105_to_20251107.json")

(* C13: whenever posted_from and posted_to denote the same calendar day, also
   when the two strings differ textually but parse to the same date
   ("11/5/2025" and "11/05/2025"), the filename is the single-day form
   contracts_<YYYYMMDD>.json and never the _to_ form.  Stated for the years
   from 1000 on, where %Y gives four digits. *)
C13_SameDayGivesSingleDayName ==
  (/\ filename # PyNone
   /\ DayOf(name_from).valid /\ DayOf(name_to).valid
   /\ DayOf(name_from).y >= 1000
   /\ SameDay(name_from, name_to)) =>
    filename = SingleDayName(DayOf(name_from))

----------------------------------------------------------------------------
(* The orchestrator: run, src/src/main.py lines 58-155, with
   send_email_notification, src/src/notifier.py lines 38-90. *)

\* process_contracts as run calls it: the list of records, or the exception
\* of the first item that raised.
RECURSIVE ProcessUpTo(_, _)
ProcessUpTo(raw, n) ==
  IF n = 0 THEN EmptyList
  ELSE LET before == ProcessUpTo(raw, n - 1)
           rec == ProcessContract(raw[n])
       IN IF IsRaised(before) THEN before
          ELSE IF IsRaised(rec) THEN rec
          ELSE PyList(AppendRecord(before.v, rec))
ProcessContracts(raw) == ProcessUpTo(raw, Len(raw))

\* What fetch_contracts(API_KEY) hands to run: the unique records of org 070.
RunNoticeIds == <<"N1", "N2", "N3", "N4">>
FetchResults == {[i \in 1..n |-> Opp(RunNoticeIds[i], "070")] : n \in 0..MaxContracts}

Logged(level, about) == log_lines' = Append(log_lines, [level |-> level, about |-> about])
Called(name, ok) == calls' = Append(calls, [call |-> name, ok |-> ok])

\* Lines 152-155: the top-level handler.
RunFatal_Propagate ==
  /\ rpc' = "raised"
  /\ UNCHANGED <<exit_code, log_lines>>
RunFatal ==
  /\ exit_code' = PyNum(1)
  /\ rpc' = "done"
  /\ Logged("ERROR", "fatal")

\* Lines 64-71: the configuration is validated before anything else.
RunValidate_KeyOnly ==
  /\ rpc = "start"
  /\ IF ~Truthy(env.API_KEY)
     THEN exit_code' = PyNum(1) /\ rpc' = "done" /\ Logged("ERROR", "SAM_API_KEY")
     ELSE rpc' = "fetch" /\ UNCHANGED <<exit_code, log_lines>>
  /\ UNCHANGED <<env, raw_contracts, processed_contracts, local_file, calls,
                 posted_from, posted_to>>
  /\ RunOnly
RunValidate ==
  /\ rpc = "start"
  /\ IF ~Truthy(env.API_KEY)
     THEN exit_code' = PyNum(1) /\ rpc' = "done" /\ Logged("ERROR", "SAM_API_KEY")
     ELSE IF ~Truthy(env.GCS_BUCKET_NAME)
     THEN exit_code' = PyNum(1) /\ rpc' = "done" /\ Logged("ERROR", "GCS_BUCKET_NAME")
     ELSE rpc' = "fetch" /\ UNCHANGED <<exit_code, log_lines>>
  /\ UNCHANGED <<env, raw_contracts, processed_contracts, local_file, calls,
                 posted_from, posted_to>>
  /\ RunOnly

\* Lines 74-79: fetch_contracts(API_KEY) returns, or raises into the handler.
RunFetch ==
  /\ rpc = "fetch"
  /\ \/ /\ Called("search_api", FALSE)
        /\ RunFatal
        /\ UNCHANGED <<raw_contracts, posted_from, posted_to>>
     \/ \E raw \in FetchResults :
          /\ Called("search_api", TRUE)
          /\ raw_contracts' = raw
          /\ posted_from' = EffectiveDates(PyNone, PyNone, now)[1]
          /\ posted_to' = EffectiveDates(PyNone, PyNone, now)[2]
          /\ rpc' = IF Len(raw) = 0 THEN "zero" ELSE "process"
          /\ UNCHANGED <<exit_code, log_lines>>
  /\ UNCHANGED <<env, processed_contracts, local_file>>
  /\ RunOnly

\* notifier.py lines 38-42: nothing is sent unless enabled and configured.
EmailConfigured_FlagOnly(enabled) == enabled
EmailConfigured(enabled) ==
  /\ enabled
  /\ Truthy(env.MAILGUN_API_KEY)
  /\ Truthy(env.MAILGUN_DOMAIN)
  /\ Truthy(env.NOTIFICATION_EMAIL)

\* What requests.post to Mailgun can do (notifier.py lines 85-90).
PostOutcomes == {"200", "401", "exception"}

\* notifier.py lines 38-90: send_email_notification with the call it makes;
\* success is its return value.
SendEmail_AnyResponse(enabled, success) ==
  IF EmailConfigured(enabled)
  THEN \E o \in PostOutcomes :
         /\ Called("mailgun_post", o = "200")
         /\ success = (o # "exception")
  ELSE /\ success = FALSE
       /\ UNCHANGED calls
SendEmail(enabled, success) ==
  IF EmailConfigured(enabled)
  THEN \E o \in PostOutcomes :
         /\ Called("mailgun_post", o = "200")
         /\ success = (o = "200")
  ELSE /\ success = FALSE
       /\ UNCHANGED calls

\* Lines 79-90: nothing found; a notification when emails are on; return 0.
RunZero_Strict ==
  /\ rpc = "zero"
  /\ IF env.SEND_EMAILS
     THEN \E success \in BOOLEAN :
            /\ SendEmail(TRUE, success)
            /\ exit_code' = IF success THEN PyNum(0) ELSE PyNum(1)
     ELSE UNCHANGED calls /\ exit_code' = PyNum(0)
  /\ rpc' = "done"
  /\ UNCHANGED <<env, raw_contracts, processed_contracts, local_file, log_lines,
                 posted_from, posted_to>>
  /\ RunOnly
RunZero ==
  /\ rpc = "zero"
  /\ IF env.SEND_EMAILS
     THEN \E success \in BOOLEAN : SendEmail(TRUE, success)
     ELSE UNCHANGED calls
  /\ exit_code' = PyNum(0)
  /\ rpc' = "done"
  /\ UNCHANGED <<env, raw_contracts, processed_contracts, local_file, log_lines,
                 posted_from, posted_to>>
  /\ RunOnly

\* Lines 92-94: process_contracts(raw_contracts).
RunProcess ==
  /\ rpc = "process"
  /\ LET result == ProcessContracts(raw_contracts)
     IN IF IsRaised(result)
        THEN RunFatal /\ UNCHANGED processed_contracts
        ELSE /\ processed_contracts' = result.v
             /\ rpc' = "save"
             /\ UNCHANGED <<exit_code, log_lines>>
  /\ UNCHANGED <<env, raw_contracts, local_file, calls, posted_from, posted_to>>
  /\ RunOnly

\* Lines 96-99: the local JSON file is written, or open/json.dump raises.
RunSave ==
  /\ rpc = "save"
  /\ \/ /\ Called("local_write", TRUE)
        /\ local_file' = TRUE
        /\ rpc' = "upload"
        /\ UNCHANGED <<exit_code, log_lines>>
     \/ /\ Called("local_write", FALSE)
        /\ RunFatal
        /\ UNCHANGED local_file
  /\ UNCHANGED <<env, raw_contracts, processed_contracts, posted_from, posted_to>>
  /\ RunOnly

\* Lines 101-105: upload_to_gcs is called outside any inner try.
RunUpload_Tolerant ==
  /\ rpc = "upload"
  /\ \/ /\ Called("gcs_upload", TRUE)
        /\ UNCHANGED log_lines
     \/ /\ Called("gcs_upload", FALSE)
        /\ Logged("WARNING", "gcs")
  /\ rpc' = "bigquery"
  /\ UNCHANGED <<env, raw_contracts, processed_contracts, local_file, exit_code,
                 posted_from, posted_to>>
  /\ RunOnly
RunUpload ==
  /\ rpc = "upload"
  /\ \/ /\ Called("gcs_upload", TRUE)
        /\ rpc' = "bigquery"
        /\ UNCHANGED <<exit_code, log_lines>>
     \/ /\ Called("gcs_upload", FALSE)
        /\ RunFatal
  /\ UNCHANGED <<env, raw_contracts, processed_contracts, local_file,
                 posted_from, posted_to>>
  /\ RunOnly

\* Lines 107-118: save_to_bigquery inside its own try; a failure is a warning.
RunBigQuery ==
  /\ rpc = "bigquery"
  /\ \/ /\ Called("bigquery_insert", TRUE)
        /\ UNCHANGED log_lines
     \/ /\ Called("bigquery_insert", FALSE)
        /\ Logged("WARNING", "bigquery")
  /\ rpc' = "cleanup"
  /\ UNCHANGED <<env, raw_contracts, processed_contracts, local_file, exit_code,
                 posted_from, posted_to>>
  /\ RunOnly

\* Lines 120-122: os.remove(filename), outside any inner try.
RunCleanup ==
  /\ rpc = "cleanup"
  /\ \/ /\ Called("local_remove", TRUE)
        /\ local_file' = FALSE
        /\ rpc' = "email"
        /\ UNCHANGED <<exit_code, log_lines>>
     \/ /\ Called("local_remove", FALSE)
        /\ RunFatal
        /\ UNCHANGED local_file
  /\ UNCHANGED <<env, raw_contracts, processed_contracts, posted_from, posted_to>>
  /\ RunOnly

\* Lines 124-150: the notification when emails are on, then return 0.
RunEmail ==
  /\ rpc = "email"
  /\ IF env.SEND_EMAILS
     THEN \E success \in BOOLEAN :
            /\ SendEmail(TRUE, success)
            /\ IF success THEN UNCHANGED log_lines ELSE Logged("WARNING", "email")
     ELSE UNCHANGED <<calls, log_lines>>
  /\ exit_code' = PyNum(0)
  /\ rpc' = "done"
  /\ UNCHANGED <<env, raw_contracts, processed_contracts, local_file,
                 posted_from, posted_to>>
  /\ RunOnly

\* os.getenv gives None for an unset variable and its text, which may be
\* empty, otherwise.
EnvValues(text) == {PyNone, EmptyStr, PyStr(text)}

InitRun ==
  /\ env \in [API_KEY : EnvValues("KEY"), GCS_BUCKET_NAME : EnvValues("bucket"),
              PROJECT_ID : {PyStr("project")}, SEND_EMAILS : BOOLEAN,
              MAILGUN_API_KEY : EnvValues("mg-key"),
              MAILGUN_DOMAIN : EnvValues("mg.example.org"),
              NOTIFICATION_EMAIL : EnvValues("ops@example.org")]
  /\ rpc = "start"
  /\ raw_contracts = <<>>
  /\ processed_contracts = <<>>
  /\ local_file = FALSE
  /\ calls = <<>>
  /\ log_lines = <<>>
  /\ exit_code = PyNone
  /\ now \in Todays
  /\ posted_from_arg = PyNone
  /\ posted_to_arg = PyNone
  /\ org_codes_arg = PyNone
  /\ budget = 0
  /\ FetchIdle
  /\ NormIdle
  /\ NameIdle
  /\ SinkIdle

NextRun ==
  \/ RunValidate \/ RunFetch \/ RunZero \/ RunProcess \/ RunSave \/ RunUpload
  \/ RunBigQuery \/ RunCleanup \/ RunEmail

SpecRun == InitRun /\ [][NextRun]_vars

----------------------------------------------------------------------------
(* The sinks of a run, as logged in calls. *)

Sinks == {"gcs_upload", "bigquery_insert", "mailgun_post"}
Made(name) == \E i \in 1..Len(calls) : calls[i].call = name
Failed(name) == \E i \in 1..Len(calls) : calls[i].call = name /\ ~calls[i].ok
Succeeded(name) == \E i \in 1..Len(calls) : calls[i].call = name /\ calls[i].ok

(* C4: in run of src/src/main.py, once the local file has been written, a
   failure of a downstream sink (object-storage upload, warehouse insert or
   email) is caught and logged as a warning, the remaining sinks are still
   attempted, and run returns 0. *)
C4_SinkFailureIsOnlyAWarning ==
  (/\ rpc = "done"
   /\ Succeeded("local_write")
   /\ ~Failed("local_remove")
   /\ \E s \in Sinks : Failed(s)) =>
    /\ exit_code = PyNum(0)
    /\ Made("gcs_upload")
    /\ Made("bigquery_insert")
    /\ EmailConfigured(env.SEND_EMAILS) => Made("mailgun_post")
    /\ \E i \in 1..Len(log_lines) : log_lines[i].level = "WARNING"

(* C14: when a required configuration value is missing (SAM_API_KEY or
   GCS_BUCKET_NAME, unset or empty), run returns a non-zero status and no
   network call (search API, object storage, warehouse, email) and no file
   write happens at any point of that run. *)
C14_MissingConfigAbortsBeforeAnyCall ==
  (~Truthy(env.API_KEY) \/ ~Truthy(env.GCS_BUCKET_NAME)) =>
    /\ calls = <<>>
    /\ ~local_file
    /\ rpc \in {"start", "done"}
    /\ exit_code = IF rpc = "done" THEN PyNum(1) ELSE PyNone

\* A run with the API key but no bucket name has returned 1.
C14_Witness ==
  /\ rpc = "done"
  /\ Truthy(env.API_KEY)
  /\ ~Truthy(env.GCS_BUCKET_NAME)
  /\ exit_code = PyNum(1)
  /\ calls = <<>>

\* The calls of a run that were made to name.
CallsTo(name) == SelectSeq(calls, LAMBDA c : c.call = name)

(* C15: when the fetch step yields an empty opportunities list, run returns 0
   and performs no local file write, no object-storage upload and no warehouse
   insert; the only sink action that can occur is one zero-count email
   notification, sent only when emails are enabled, and its outcome does not
   change the return status. *)
C15_ZeroResultsIsNotAnError ==
  (Succeeded("search_api") /\ raw_contracts = <<>>) =>
    /\ rpc \in {"zero", "done"}
    /\ rpc = "done" => exit_code = PyNum(0)
    /\ ~local_file
    /\ \A i \in 1..Len(calls) : calls[i].call \in {"search_api", "mailgun_post"}
    /\ Len(CallsTo("mailgun_post")) <= 1
    /\ Made("mailgun_post") => env.SEND_EMAILS
    /\ processed_contracts = <<>>

\* A zero-result run whose notification was refused by Mailgun returned 0.
C15_Witness ==
  /\ rpc = "done"
  /\ Succeeded("search_api")
  /\ raw_contracts = <<>>
  /\ Failed("mailgun_post")
  /\ exit_code = PyNum(0)

\* The calls of run that no inner handler guards.
Unguarded == {"search_api", "local_write", "gcs_upload", "local_remove"}

(* C16: an exception raised inside the fetch/normalize/persist/notify steps
   of run and not handled by an inner handler is caught at the top level: run
   never propagates an exception to its caller, and it returns a non-zero
   status in that case. *)
C16_TopLevelHandlerCatchesEverything ==
  /\ rpc # "raised"
  /\ rpc = "done" => exit_code \in {PyNum(0), PyNum(1)}
  /\ (\E name \in Unguarded : Failed(name)) =>
       /\ rpc = "done"
       /\ exit_code = PyNum(1)
       /\ \E i \in 1..Len(log_lines) :
            log_lines[i] = [level |-> "ERROR", about |-> "fatal"]
       /\ ~calls[Len(calls)].ok

\* The removal of the local file raised after the upload and the insert, and
\* run returned 1.
C16_Witness ==
  /\ rpc = "done"
  /\ Failed("local_remove")
  /\ Succeeded("gcs_upload")
  /\ exit_code = PyNum(1)

(* C17: email sending is gated: no HTTP request is made to Mailgun and
   nothing is raised when the enable flag is false or when any of the Mailgun
   API key, the Mailgun domain or the recipient address is missing, and the run
   is not failed by that: it returns 0 when the earlier steps succeeded. *)
C17_EmailIsGated ==
  (\/ ~env.SEND_EMAILS
   \/ \E k \in {"MAILGUN_API_KEY", "MAILGUN_DOMAIN", "NOTIFICATION_EMAIL"} :
        env[k] \in {PyNone, EmptyStr}) =>
    /\ ~Made("mailgun_post")
    /\ rpc # "raised"
    /\ (rpc = "done" /\ Truthy(env.API_KEY) /\ Truthy(env.GCS_BUCKET_NAME)
          /\ \A name \in Unguarded : ~Failed(name)) =>
         exit_code = PyNum(0)

\* Emails are on but the Mailgun domain is missing: a run with contracts went
\* through every step, posted nothing and returned 0.
C17_Witness ==
  /\ rpc = "done"
  /\ env.SEND_EMAILS
  /\ ~Truthy(env.MAILGUN_DOMAIN)
  /\ Succeeded("local_remove")
  /\ ~Made("mailgun_post")
  /\ exit_code = PyNum(0)

(* C30: send_email_notification of src/src/notifier.py never raises and
   returns True exactly when one HTTP POST was made and answered 200, False
   for any other answer and for an exception; in main.run a False result only
   logs a warning and the run still returns 0.  Seen from run: at most one
   POST is made, nothing propagates, and a run that reached the email step
   ends with status 0, without a fatal error line, and with the warning
   'Email notification failed' exactly when emails are on and no POST was
   answered 200. *)
C30_EmailFailureIsOnlyAWarning ==
  /\ rpc # "raised"
  /\ Len(CallsTo("mailgun_post")) <= 1
  /\ (rpc = "done" /\ Succeeded("local_remove")) =>
       /\ exit_code = PyNum(0)
       /\ \A i \in 1..Len(log_lines) : log_lines[i].level # "ERROR"
       /\ (\E i \in 1..Len(log_lines) :
             log_lines[i] = [level |-> "WARNING", about |-> "email"])
            <=> (env.SEND_EMAILS /\ ~Succeeded("mailgun_post"))

\* Mailgun answered the one POST with a status other than 200 (or the POST
\* raised): the warning is logged and the run returned 0.
C30_Witness ==
  /\ rpc = "done"
  /\ Succeeded("local_remove")
  /\ Succeeded("bigquery_insert")
  /\ Len(CallsTo("mailgun_post")) = 1
  /\ Failed("mailgun_post")
  /\ log_lines = <<[level |-> "WARNING", about |-> "email"]>>
  /\ exit_code = PyNum(0)

\* The steps of a run with a non-empty result, in the order of lines 96-142.
StepOrder ==
  <<"local_write", "gcs_upload", "bigquery_insert", "local_remove", "mailgun_post">>

\* The calls run has made to those steps, by name, in the order made.
RECURSIVE StepsMade(_)
StepsMade(n) ==
  IF n = 0 THEN <<>>
  ELSE IF \E k \in 1..Len(StepOrder) : StepOrder[k] = calls[n].call
       THEN Append(StepsMade(n - 1), calls[n].call)
       ELSE StepsMade(n - 1)

(* C28: in run of src/src/main.py with a non-empty result the steps happen in
   the fixed order local save, object-storage upload, warehouse insert, local
   file removal, email, each at most once and none before its predecessor
   (the email may be left out); the warehouse insert, the removal and the
   email are attempted only after the upload completed without raising, and if
   the upload raises the local file stays on disk, nothing further is
   attempted and run returns 1. *)
C28_StepsInOrderUploadGatesTheRest ==
  Len(raw_contracts) > 0 =>
    /\ \E n \in 0..Len(StepOrder) : StepsMade(Len(calls)) = SubSeq(StepOrder, 1, n)
    /\ \A i \in 1..Len(calls) :
         calls[i].call \in {"bigquery_insert", "local_remove", "mailgun_post"} =>
           \E j \in 1..(i - 1) : calls[j] = [call |-> "gcs_upload", ok |-> TRUE]
    /\ Failed("gcs_upload") =>
         /\ calls[Len(calls)] = [call |-> "gcs_upload", ok |-> FALSE]
         /\ local_file
         /\ rpc = "done"
         /\ exit_code = PyNum(1)

\* The local file was written and the upload raised: run is over with status
\* 1, the file is on disk and the warehouse was never called.
C28_Witness ==
  /\ rpc = "done"
  /\ Len(raw_contracts) > 0
  /\ Succeeded("local_write")
  /\ Failed("gcs_upload")
  /\ ~Made("bigquery_insert")
  /\ local_file
  /\ exit_code = PyNum(1)

----------------------------------------------------------------------------
(* The single-organization variants: run and fetch_contracts of
   src/src/run_job.py (lines 181-211 and 251-325) and of
   src/local/test_local.py (lines 39-70 and 241-327).  env.module tells which
   of the two runs; they share the state of run. *)

JobOnly ==
  UNCHANGED <<now, posted_from_arg, posted_to_arg, org_codes_arg, org_codes, fpc,
              code_idx, opportunities, opp_idx, all_opportunities, seen_notice_ids,
              budget, prior, norm_vars, name_vars, sink_vars>>

\* run_job.py lines 257-264, test_local.py lines 250-256.
JobValidate ==
  /\ rpc = "start"
  /\ IF ~Truthy(env.API_KEY)
     THEN exit_code' = PyNum(1) /\ rpc' = "done" /\ Logged("ERROR", "SAM_API_KEY")
     ELSE IF /\ ~Truthy(env.GCS_BUCKET_NAME)
             /\ (env.module = "run_job" \/ env.UPLOAD_TO_GCS)
     THEN exit_code' = PyNum(1) /\ rpc' = "done" /\ Logged("ERROR", "GCS_BUCKET_NAME")
     ELSE /\ rpc' = IF env.module = "test_local" THEN "dir" ELSE "fetch"
          /\ UNCHANGED <<exit_code, log_lines>>
  /\ UNCHANGED <<env, raw_contracts, processed_contracts, local_file, calls,
                 posted_from, posted_to, http_log>>
  /\ JobOnly

\* test_local.py lines 235-239 and 260: ensure_output_dir(), inside the try.
JobEnsureDir ==
  /\ rpc = "dir"
  /\ \/ /\ Called("makedirs", TRUE)
        /\ rpc' = "fetch"
        /\ UNCHANGED <<exit_code, log_lines>>
     \/ /\ Called("makedirs", FALSE)
        /\ RunFatal
  /\ UNCHANGED <<env, raw_contracts, processed_contracts, local_file,
                 posted_from, posted_to, http_log>>
  /\ JobOnly

\* run_job.py lines 181-211 and 268 (test_local.py lines 39-70 and 263):
\* one request for org 070 and yesterday; 200 gives the list and the dates,
\* anything else an ERROR line and [], None, None; requests.get and len(None)
\* raise into the handler of run.
JobFetch_RaiseForStatus ==
  /\ rpc = "fetch"
  /\ LET yesterday == StrftimeMDY(MinusOneDay(now))
     IN \E o \in Outcomes("070", MaxContracts) :
          /\ http_log' = Append(http_log,
                [url |-> BASE_URL,
                 params |-> [api_key |-> "KEY", organizationCode |-> "070",
                             postedFrom |-> yesterday, postedTo |-> yesterday,
                             active |-> "true", limit |-> 200],
                 timeout |-> 30, outcome |-> o])
          /\ IF o.kind = "exception"
             THEN /\ RunFatal
                  /\ UNCHANGED <<raw_contracts, posted_from, posted_to>>
             ELSE IF o.status_code = 200
             THEN LET opps == PyGet(o.json, "opportunitiesData", EmptyList)
                  IN IF opps.t # "list"
                     THEN /\ RunFatal
                          /\ UNCHANGED <<raw_contracts, posted_from, posted_to>>
                     ELSE /\ raw_contracts' = opps.v
                          /\ posted_from' = yesterday
                          /\ posted_to' = yesterday
                          /\ rpc' = IF Len(opps.v) = 0 THEN "zero" ELSE "process"
                          /\ UNCHANGED <<exit_code, log_lines>>
             ELSE /\ RunFatal
                  /\ UNCHANGED <<raw_contracts, posted_from, posted_to>>
  /\ UNCHANGED <<env, processed_contracts, local_file, calls>>
  /\ JobOnly
JobFetch ==
  /\ rpc = "fetch"
  /\ LET yesterday == StrftimeMDY(MinusOneDay(now))
     IN \E o \in Outcomes("070", MaxContracts) :
          /\ http_log' = Append(http_log,
                [url |-> BASE_URL,
                 params |-> [api_key |-> "KEY", organizationCode |-> "070",
                             postedFrom |-> yesterday, postedTo |-> yesterday,
                             active |-> "true", limit |-> 200],
                 timeout |-> 30, outcome |-> o])
          /\ IF o.kind = "exception"
             THEN /\ RunFatal
                  /\ UNCHANGED <<raw_contracts, posted_from, posted_to>>
             ELSE IF o.status_code = 200
             THEN LET opps == PyGet(o.json, "opportunitiesData", EmptyList)
                  IN IF opps.t # "list"
                     THEN /\ RunFatal
                          /\ UNCHANGED <<raw_contracts, posted_from, posted_to>>
                     ELSE /\ raw_contracts' = opps.v
                          /\ posted_from' = yesterday
                          /\ posted_to' = yesterday
                          /\ rpc' = IF Len(opps.v) = 0 THEN "zero" ELSE "process"
                          /\ UNCHANGED <<exit_code, log_lines>>
             ELSE /\ Logged("ERROR", "api")
                  /\ raw_contracts' = <<>>
                  /\ posted_from' = PyNone
                  /\ posted_to' = PyNone
                  /\ rpc' = "zero"
                  /\ UNCHANGED exit_code
  /\ UNCHANGED <<env, processed_contracts, local_file, calls>>
  /\ JobOnly

\* run_job.py lines 270-272, test_local.py lines 265-267: nothing to do.
JobZero ==
  /\ rpc = "zero"
  /\ exit_code' = PyNum(0)
  /\ rpc' = "done"
  /\ UNCHANGED <<env, raw_contracts, processed_contracts, local_file, calls,
                 log_lines, posted_from, posted_to, http_log>>
  /\ JobOnly

\* run_job.py lines 274-276: process_contracts(raw_contracts).
JobProcess ==
  /\ rpc = "process"
  /\ LET result == ProcessContracts(raw_contracts)
     IN IF IsRaised(result)
        THEN RunFatal /\ UNCHANGED processed_contracts
        ELSE /\ processed_contracts' = result.v
             /\ rpc' = "save"
             /\ UNCHANGED <<exit_code, log_lines>>
  /\ UNCHANGED <<env, raw_contracts, local_file, calls, posted_from, posted_to,
                 http_log>>
  /\ JobOnly

\* run_job.py lines 278-301: the file name, then open and json.dump.
JobSave ==
  /\ rpc = "save"
  /\ \/ /\ Called("local_write", TRUE)
        /\ local_file' = TRUE
        /\ rpc' = IF env.module = "run_job" \/ env.UPLOAD_TO_GCS
                  THEN "upload" ELSE "email"
        /\ UNCHANGED <<exit_code, log_lines>>
     \/ /\ Called("local_write", FALSE)
        /\ RunFatal
        /\ UNCHANGED local_file
  /\ UNCHANGED <<env, raw_contracts, processed_contracts, posted_from, posted_to,
                 http_log>>
  /\ JobOnly

\* run_job.py lines 303-305: upload_to_gcs raises into the handler of run;
\* test_local.py lines 218-233 and 298-307: it returns False and run goes on.
JobUpload ==
  /\ rpc = "upload"
  /\ \/ /\ Called("gcs_upload", TRUE)
        /\ rpc' = IF env.module = "run_job" THEN "cleanup" ELSE "email"
        /\ UNCHANGED <<exit_code, log_lines>>
     \/ /\ Called("gcs_upload", FALSE)
        /\ IF env.module = "run_job"
           THEN RunFatal
           ELSE rpc' = "email" /\ Logged("ERROR", "gcs") /\ UNCHANGED exit_code
  /\ UNCHANGED <<env, raw_contracts, processed_contracts, local_file,
                 posted_from, posted_to, http_log>>
  /\ JobOnly

\* run_job.py lines 307-309: os.remove(filename); test_local.py keeps the file.
JobCleanup ==
  /\ rpc = "cleanup"
  /\ \/ /\ Called("local_remove", TRUE)
        /\ local_file' = FALSE
        /\ rpc' = "email"
        /\ UNCHANGED <<exit_code, log_lines>>
     \/ /\ Called("local_remove", FALSE)
        /\ RunFatal
        /\ UNCHANGED local_file
  /\ UNCHANGED <<env, raw_contracts, processed_contracts, posted_from, posted_to,
                 http_log>>
  /\ JobOnly

\* run_job.py lines 30-179 and 318-320, test_local.py lines 102-215 and
\* 310-324: the notification, whose outcome run ignores, then return 0.
JobEmail ==
  /\ rpc = "email"
  /\ IF ~env.SEND_EMAILS
     THEN UNCHANGED <<calls, log_lines>>
     ELSE IF ~EmailConfigured(TRUE)
     THEN Logged("WARNING", "email") /\ UNCHANGED calls
     ELSE \E o \in PostOutcomes :
            /\ Called("mailgun_post", o = "200")
            /\ IF o = "200" THEN UNCHANGED log_lines
               ELSE Logged(IF env.module = "run_job" THEN "ERROR" ELSE "WARNING",
                           "email")
  /\ exit_code' = PyNum(0)
  /\ rpc' = "done"
  /\ UNCHANGED <<env, raw_contracts, processed_contracts, local_file,
                 posted_from, posted_to, http_log>>
  /\ JobOnly

InitJob ==
  /\ env \in {e \in [module : {"run_job", "test_local"}, UPLOAD_TO_GCS : BOOLEAN,
                     API_KEY : EnvValues("KEY"),
                     GCS_BUCKET_NAME : EnvValues("bucket"),
                     SEND_EMAILS : BOOLEAN,
                     MAILGUN_API_KEY : EnvValues("mg-key"),
                     MAILGUN_DOMAIN : {PyStr("mg.example.org")},
                     NOTIFICATION_EMAIL : {PyStr("ops@example.org")}] :
                e.module = "run_job" => e.UPLOAD_TO_GCS}
  /\ rpc = "start"
  /\ raw_contracts = <<>>
  /\ processed_contracts = <<>>
  /\ local_file = FALSE
  /\ calls = <<>>
  /\ log_lines = <<>>
  /\ exit_code = PyNone
  /\ now \in {t \in Todays : t.m = 11}
  /\ posted_from_arg = PyNone
  /\ posted_to_arg = PyNone
  /\ org_codes_arg = PyNone
  /\ budget = 0
  /\ FetchIdle
  /\ NormIdle
  /\ NameIdle
  /\ SinkIdle

NextJob ==
  \/ JobValidate \/ JobEnsureDir \/ JobFetch \/ JobZero \/ JobProcess \/ JobSave
  \/ JobUpload \/ JobCleanup \/ JobEmail

SpecJob == InitJob /\ [][NextJob]_vars

\* What a run has written to or sent through: the local file, object
\* storage, the warehouse, Mailgun.
SinkWrites == {"local_write", "gcs_upload", "bigquery_insert", "mailgun_post"}

\* The state a run of a single-organization variant ends in when it had
\* nothing to persist.
EndsAsNothingFound ==
  /\ rpc \in {"zero", "done"}
  /\ rpc = "done" => exit_code = PyNum(0)
  /\ raw_contracts = <<>>
  /\ processed_contracts = <<>>
  /\ ~local_file
  /\ \A i \in 1..Len(calls) : calls[i].call \notin SinkWrites

(* C29: in the single-organization variants (src/src/run_job.py and
   src/local/test_local.py) a non-200 API response makes fetch_contracts
   return an empty list with null dates, and run then returns 0 with no sink
   write and no notification: the run ends in the state and with the exit
   status of a run whose query answered 200 with zero results. *)
C29_ApiFailureEndsLikeZeroResults ==
  /\ (Len(http_log) = 1 /\ AnsweredNonOk(1)) =>
       /\ posted_from = PyNone
       /\ posted_to = PyNone
       /\ EndsAsNothingFound
  /\ (Len(http_log) = 1 /\ AnsweredOk(1) /\ rpc \in {"zero", "done"}
        /\ ReturnedBy(1) = <<>> /\ exit_code # PyNum(1)) =>
       EndsAsNothingFound

\* The API answered 500 with emails on and configured, and the run is over
\* with status 0.
C29_Witness ==
  /\ rpc = "done"
  /\ Len(http_log) = 1
  /\ AnsweredNonOk(1)
  /\ EmailConfigured(env.SEND_EMAILS)
  /\ exit_code = PyNum(0)
  /\ calls = <<>>
  /\ log_lines = <<[level |-> "ERROR", about |-> "api"]>>

----------------------------------------------------------------------------
(* The sinks as functions of the contracts they are given: save_to_bigquery,
   src/src/storage.py lines 33-84, and send_email_notification,
   src/src/notifier.py lines 12-158.  A date value is a PyText, so that
   [:10] is a slice of its characters. *)

Min(a, b) == IF a < b THEN a ELSE b

\* x[:10].  The opaque strings of the model have at most ten characters
\* where they are sliced.
Slice10_Whole(x) == x
Slice10(x) ==
  CASE x.t = "text" -> PyText(SubSeq(x.v, 1, Min(10, Len(x.v))))
    [] x.t = "list" -> PyList(SubSeq(x.v, 1, Min(10, Len(x.v))))
    [] x.t = "str" -> x
    [] OTHER -> Raised("TypeError")

\* storage.py lines 58-59:
\*   contract.get(key, '')[:10] if contract.get(key) else None
BigQueryDate(contract, key) ==
  IF Truthy(PyGet(contract, key, PyNone))
  THEN Slice10(PyGet(contract, key, EmptyStr))
  ELSE PyNone

\* storage.py lines 61-77.
BigQueryRow(contract) ==
  DictLiteral(
    [notice_id |-> PyGet(contract, "notice_id", EmptyStr),
     title |-> PyGet(contract, "title", EmptyStr),
     solicitation_number |-> PyGet(contract, "solicitation_number", EmptyStr),
     posted_date |-> BigQueryDate(contract, "posted_date"),
     response_deadline |-> BigQueryDate(contract, "response_deadline"),
     type |-> PyGet(contract, "type", EmptyStr),
     naics_code |-> PyGet(contract, "naics_code", EmptyStr),
     active |-> PyGet(contract, "active", EmptyStr),
     organization |-> PyGet(contract, "organization", EmptyStr),
     office_city |-> PyGet(contract, "office_city", EmptyStr),
     office_state |-> PyGet(contract, "office_state", EmptyStr),
     contact_email |-> PyGet(contract, "contact_email", EmptyStr),
     contact_phone |-> PyGet(contract, "contact_phone", EmptyStr),
     ui_link |-> PyGet(contract, "ui_link", EmptyStr),
     set_aside |-> PyGet(contract, "set_aside", EmptyStr)],
    ContractKeys)

\* storage.py lines 55-78: the rows built for the first n contracts, and the
\* exception that ended the loop, PyNone if none did.
RECURSIVE BigQueryRows(_, _)
BigQueryRows(cs, n) ==
  IF n = 0 THEN [rows |-> <<>>, raised |-> PyNone]
  ELSE LET before == BigQueryRows(cs, n - 1)
           row == BigQueryRow(cs[n])
       IN IF before.raised # PyNone THEN before
          ELSE IF IsRaised(row) THEN [rows |-> before.rows, raised |-> row]
          ELSE [rows |-> Append(before.rows, row), raised |-> PyNone]

\* What bq_client.insert_rows_json can do: no errors, errors, or raise.
InsertOutcomes == {"ok", "errors", "exception"}

\* storage.py lines 51-84.
SaveToBigQuery ==
  /\ bq_state = "idle"
  /\ \/ /\ bq_state' = "raised"      \* bigquery.Client(project=...) raised
        /\ UNCHANGED <<rows_to_insert, calls>>
     \/ LET built == BigQueryRows(contracts, Len(contracts))
        IN /\ rows_to_insert' = built.rows
           /\ IF built.raised # PyNone
              THEN bq_state' = "raised" /\ UNCHANGED calls
              ELSE \E o \in InsertOutcomes :
                     /\ Called("bigquery_insert", o = "ok")
                     /\ bq_state' = IF o = "ok" THEN "returned" ELSE "raised"
  /\ UNCHANGED <<contracts, mail_data, mail_state>>
  /\ SinkOnly

\* notifier.py lines 112-124: the cells of one row of the HTML table.
HtmlRow(contract) ==
  [ui_link |-> PyGet(contract, "ui_link", PyStr("#")),
   title |-> PyGet(contract, "title", PyStr("N/A")),
   organization |-> PyGet(contract, "organization", PyStr("N/A")),
   solicitation_number |-> PyGet(contract, "solicitation_number", PyStr("N/A")),
   posted_date |-> PyGet(contract, "posted_date", PyStr("N/A")),
   response_deadline |-> PyGet(contract, "response_deadline", PyStr("N/A")),
   type |-> PyGet(contract, "type", PyStr("N/A")),
   office_city |-> PyGet(contract, "office_city", PyStr("N/A")),
   office_state |-> PyGet(contract, "office_state", PyStr("N/A")),
   set_aside |-> PyGet(contract, "set_aside", PyStr("N/A"))]

\* notifier.py lines 93-128: the rows of the table, none for no contracts.
generate_html_table(cs) == [i \in 1..Len(cs) |-> HtmlRow(cs[i])]

\* notifier.py lines 148-156: the numbered entries of the plain-text body.
generate_text_body(cs) ==
  [i \in 1..Len(cs) |->
     [index |-> i,
      title |-> PyGet(cs[i], "title", PyStr("N/A")),
      organization |-> PyGet(cs[i], "organization", PyStr("N/A")),
      solicitation_number |-> PyGet(cs[i], "solicitation_number", PyStr("N/A")),
      posted_date |-> PyGet(cs[i], "posted_date", PyStr("N/A")),
      response_deadline |-> PyGet(cs[i], "response_deadline", PyStr("N/A")),
      ui_link |-> PyGet(cs[i], "ui_link", PyStr("N/A"))]]

\* notifier.py lines 46-83: what the message says about the contracts.
MailData(cs) ==
  [contract_count |-> Len(cs), html |-> generate_html_table(cs),
   text |-> generate_text_body(cs)]

\* notifier.py lines 38-90, called with enabled = SEND_EMAILS.
SendEmailNotification ==
  /\ mail_state = "idle"
  /\ \E success \in BOOLEAN :
       /\ SendEmail(env.SEND_EMAILS, success)
       /\ IF EmailConfigured(env.SEND_EMAILS)
          THEN /\ mail_data' = MailData(contracts)
               /\ mail_state' = IF success THEN "sent" ELSE "failed"
          ELSE /\ mail_data' = PyNone
               /\ mail_state' = "skipped"
  /\ UNCHANGED <<contracts, rows_to_insert, bq_state>>
  /\ SinkOnly

\* Longest list of contracts with varied dates.
MaxRows == 2
\* Longest list of contracts handed to the notifier.
MaxMailed == 21

\* Date values of a normalized record: a day, a timestamp, a short text; and,
\* as process_contracts passes values through, null or a number.
IsoDay == <<"2", "0", "2", "5", "-", "1", "1", "-", "0", "5">>
IsoStamp ==
  <<"2", "0", "2", "5", "-", "1", "2", "-", "0", "1", "T", "1", "7", ":", "0", "0", ":", "0", "0", "-", "0", "5", ":", "0", "0">>
ShortDate == <<"2", "0", "2", "5">>

SinkDates ==
  {Absent, PyNone, PyText(<<>>), PyText(ShortDate), PyText(IsoDay), PyText(IsoStamp),
   PyNum(20251105)}

\* A record of process_contracts with the given date values.
SinkRecord(posted_date, response_deadline) ==
  LET base == ProcessContract(RawItem(AllStrings("N1"), GoodOffice, GoodPoc)).v
      rest == [k \in DOMAIN base \ {"posted_date", "response_deadline"} |-> base[k]]
  IN PyDict(WithKey(WithKey(rest, "posted_date", posted_date),
                    "response_deadline", response_deadline))

SinkRecords ==
  {SinkRecord(pd, rd) : pd \in SinkDates, rd \in {PyNone, PyText(IsoStamp)}}

\* n contracts, alternately without and with a deadline.
ManyContracts(n) ==
  [i \in 1..n |->
     SinkRecord(PyText(IsoDay), IF i % 2 = 1 THEN PyNone ELSE PyText(IsoStamp))]

SinkInputs ==
  SeqsUpTo(SinkRecords, MaxRows) \cup {ManyContracts(n) : n \in 0..MaxMailed}

InitSink ==
  /\ contracts \in SinkInputs
  /\ rows_to_insert = <<>>
  /\ bq_state = "idle"
  /\ mail_data = PyNone
  /\ mail_state = "idle"
  /\ env \in [API_KEY : {PyStr("KEY")}, GCS_BUCKET_NAME : {PyStr("bucket")},
              PROJECT_ID : {PyStr("project")}, SEND_EMAILS : BOOLEAN,
              MAILGUN_API_KEY : {PyNone, PyStr("mg-key")},
              MAILGUN_DOMAIN : {PyStr("mg.example.org")},
              NOTIFICATION_EMAIL : {PyStr("ops@example.org")}]
  /\ rpc = "idle"
  /\ raw_contracts = <<>>
  /\ processed_contracts = <<>>
  /\ local_file = FALSE
  /\ calls = <<>>
  /\ log_lines = <<>>
  /\ exit_code = PyNone
  /\ now = [y |-> 2025, m |-> 11, d |-> 6]
  /\ posted_from_arg = PyNone
  /\ posted_to_arg = PyNone
  /\ org_codes_arg = PyNone
  /\ budget = 0
  /\ FetchIdle
  /\ NormIdle
  /\ NameIdle

NextSink == SaveToBigQuery \/ SendEmailNotification

SpecSink == InitSink /\ [][NextSink]_vars

\* The longest preview the notification may hold.
PreviewMax == 20

(* C18: the notification email contains only a bounded preview of the
   records: however many contracts are passed, the HTML table and the
   plain-text list each include at most the first 10 to 20 records, never the
   whole of a longer list. *)
C18_EmailPreviewIsBounded ==
  mail_data # PyNone =>
    /\ Len(mail_data.html) <= PreviewMax
    /\ Len(mail_data.text) <= PreviewMax
    /\ mail_data.html = generate_html_table(SubSeq(contracts, 1, Len(mail_data.html)))
    /\ mail_data.text = generate_text_body(SubSeq(contracts, 1, Len(mail_data.text)))

DateKeys == {"posted_date", "response_deadline"}

(* C19: save_to_bigquery submits exactly one row per normalized record, in
   input order, where posted_date and response_deadline are the first 10
   characters of the record's value, and an empty or missing date value is
   sent as null rather than as an empty string. *)
C19_OneRowPerRecordDatesTruncated ==
  Made("bigquery_insert") =>
    /\ Len(rows_to_insert) = Len(contracts)
    /\ \A i \in 1..Len(contracts) :
         LET contract == contracts[i].v
             row == rows_to_insert[i].v
         IN /\ DOMAIN row = Range(ContractKeys)
            /\ \A k \in DateKeys :
                 row[k] = IF k \notin DOMAIN contract
                             \/ contract[k] \in {PyNone, PyText(<<>>)}
                          THEN PyNone
                          ELSE PyText([j \in 1..Min(10, Len(contract[k].v)) |->
                                         contract[k].v[j]])
            /\ \A k \in Range(ContractKeys) \ DateKeys : row[k] = contract[k]

\* Two records were submitted: a timestamp went out as its first ten
\* characters and an empty date as null.
C19_Witness ==
  /\ Made("bigquery_insert")
  /\ Len(contracts) = 2
  /\ HasKey(contracts[1], "posted_date")
  /\ contracts[1].v["posted_date"] = PyText(IsoStamp)
  /\ rows_to_insert[1].v["posted_date"] = PyText(SubSeq(IsoStamp, 1, 10))
  /\ HasKey(contracts[2], "posted_date")
  /\ contracts[2].v["posted_date"] = PyText(<<>>)
  /\ rows_to_insert[2].v["posted_date"] = PyNone

====
